---- MODULE Spec2Model ----
(***************************************************************************)
(* A model of the tinyrenderer software rasterizer: the Bresenham line     *)
(* rasterizer, the barycentric solver, the bounding-box clipper, the       *)
(* three triangle fills and the pixel store they write to.                 *)
(*                                                                         *)
(* i32 values are TLA+ integers (the bounds keep every intermediate value  *)
(* far from the i32 limits).  f32 values are modelled bit-exactly as       *)
(* IEEE-754 binary32 numbers with round-to-nearest-even: a finite f32 is   *)
(* the pair <<m, e>> standing for m * 2^e, with m = 0 (and e = 0) or       *)
(* 2^23 <= |m| < 2^24.                                                     *)
(***************************************************************************)
EXTENDS Integers, Sequences, FiniteSets, TLC

\* F(e), with e evaluated once, however often F uses its argument
With(e, F(_)) == CHOOSE y \in {F(x) : x \in {e}} : TRUE

(***************************************************************************)
(* f32 arithmetic.                                                         *)
(***************************************************************************)
\* 2^n for n in 0..30
Pow2(n) ==
    <<1, 2, 4, 8, 16, 32, 64, 128, 256, 512, 1024, 2048, 4096, 8192, 16384,
      32768, 65536, 131072, 262144, 524288, 1048576, 2097152, 4194304, 8388608,
      16777216, 33554432, 67108864, 134217728, 268435456, 536870912,
      1073741824>>[n + 1]

\* The number of bits of n: 0 for 0, and k when 2^(k-1) <= n < 2^k
BitLen4(n) == IF n < 4 THEN (IF n < 2 THEN n ELSE 2) ELSE (IF n < 8 THEN 3 ELSE 4)
BitLen8(n) == IF n < 16 THEN BitLen4(n) ELSE 4 + BitLen4(n \div 16)
BitLen(n) ==
    IF n < 65536
    THEN (IF n < 256 THEN BitLen8(n) ELSE 8 + BitLen8(n \div 256))
    ELSE (IF n < 16777216 THEN 16 + BitLen8(n \div 65536)
          ELSE 24 + BitLen8(n \div 16777216))

Abs(n) == IF n < 0 THEN -n ELSE n

Sgn(n) == IF n < 0 THEN -1 ELSE IF n > 0 THEN 1 ELSE 0

Min(a, b) == IF a < b THEN a ELSE b

Max(a, b) == IF a > b THEN a ELSE b

\* 0.0f32 (the sign of a zero is not observable by any operation used here)
FZero == <<0, 0>>

\* f32::NEG_INFINITY: it is only ever stored and compared
NEG_INFINITY == <<-1, 1000>>

\* The f32 nearest to sign * (mag + f) * 2^e, where 0 < f < 1 if sticky and
\* f = 0 otherwise; a sticky magnitude has more than 25 bits.
RoundPack(sign, mag, e, sticky) ==
    IF mag = 0 THEN FZero
    ELSE LET len == BitLen(mag) IN
         IF len <= 24
         THEN <<sign * mag * Pow2(24 - len), e - (24 - len)>>
         ELSE LET k    == len - 24
                  q    == mag \div Pow2(k)
                  rem  == mag % Pow2(k)
                  half == Pow2(k - 1)
                  up   == \/ rem > half
                          \/ rem = half /\ (sticky \/ q % 2 = 1)
                  r    == IF up THEN q + 1 ELSE q
              IN IF r = Pow2(24)
                 THEN <<sign * Pow2(23), e + k + 1>>
                 ELSE <<sign * r, e + k>>

\* i32 as f32 (ToPrimitive::to_f32 and the `as f32` cast)
ToF32(n) == RoundPack(Sgn(n), Abs(n), 0, FALSE)

FNeg(a) == IF a[1] = 0 THEN FZero ELSE <<-a[1], a[2]>>

\* a + b
FAdd(a, b) ==
    IF a[1] = 0 THEN b
    ELSE IF b[1] = 0 THEN a
    ELSE LET hi == IF a[2] >= b[2] THEN a ELSE b
             lo == IF a[2] >= b[2] THEN b ELSE a
             d  == hi[2] - lo[2]
             \* both operands in units of 2^(hi[2] - 3): three extra bits
             \* (guard, round, sticky) below the larger operand's last bit
             H  == hi[1] * 8
             lm == Abs(lo[1])
             L  == IF d <= 3 THEN lm * Pow2(3 - d)
                   ELSE IF d - 3 >= 24 THEN 1
                   ELSE LET sh == Pow2(d - 3)
                            t  == lm \div sh
                        IN IF lm % sh = 0 THEN t
                           ELSE IF t % 2 = 0 THEN t + 1 ELSE t
             S  == H + Sgn(lo[1]) * L
         IN RoundPack(Sgn(S), Abs(S), hi[2] - 3, FALSE)

\* a - b
FSub(a, b) == FAdd(a, FNeg(b))

\* a with the low zero bits of its mantissa moved into the exponent, at most
\* k = 16, 8, 4, 2, 1 bits at a time
Strip(a, k) ==
    IF a[1] % Pow2(k) = 0 THEN <<a[1] \div Pow2(k), a[2] + k>> ELSE a

StripZeros(a) == Strip(Strip(Strip(Strip(Strip(a, 16), 8), 4), 2), 1)

\* a * b.  The exact product of the two odd parts must fit a TLA+ integer;
\* every product of the program has a small integer as one factor.
FMul(a, b) ==
    IF a[1] = 0 \/ b[1] = 0 THEN FZero
    ELSE LET x == StripZeros(a)
             y == StripZeros(b)
             p == x[1] * y[1]
         IN RoundPack(Sgn(p), Abs(p), x[2] + y[2], FALSE)

\* One step of the long division by d: qr = <<quotient so far, remainder>>
\* gains the next quotient bits, as many as the factor f = 2^bits has
LongDiv(qr, d, f) == <<qr[1] * f + ((qr[2] * f) \div d), (qr[2] * f) % d>>

\* a / b, b # 0: 26 quotient bits below the integer part, and a sticky bit
FDiv(a, b) ==
    IF a[1] = 0 THEN FZero
    ELSE LET ma == Abs(a[1])
             mb == Abs(b[1])
             qr == LongDiv(LongDiv(LongDiv(LongDiv(<<ma \div mb, ma % mb>>,
                                                   mb, 128), mb, 128), mb, 128),
                           mb, 32)
         IN RoundPack(Sgn(a[1]) * Sgn(b[1]), qr[1], a[2] - b[2] - 26, qr[2] # 0)

\* a < b
FLt(a, b) ==
    IF a = NEG_INFINITY THEN b # NEG_INFINITY
    ELSE IF b = NEG_INFINITY THEN FALSE
    ELSE LET sa == Sgn(a[1])
             sb == Sgn(b[1])
         IN IF sa # sb THEN sa < sb
            ELSE IF sa = 0 THEN FALSE
            ELSE IF sa > 0 THEN a[2] < b[2] \/ (a[2] = b[2] /\ a[1] < b[1])
            ELSE a[2] > b[2] \/ (a[2] = b[2] /\ a[1] < b[1])

\* a <= b
FLe(a, b) == ~FLt(b, a)

\* a >= b
FGe(a, b) == ~FLt(a, b)

\* f32 as i32: truncation toward zero (no value of the model saturates)
ToI32(a) ==
    IF a[2] >= 0 THEN a[1] * Pow2(a[2])
    ELSE IF -a[2] >= 24 THEN 0
    ELSE Sgn(a[1]) * (Abs(a[1]) \div Pow2(-a[2]))

(***************************************************************************)
(* u32 values.  A u32 is the pair <<hi, lo>> of its 16-bit halves, so that *)
(* the values 2^31 .. 2^32-1 a negative i32 is cast to can be written.     *)
(***************************************************************************)
AsU32_saturating(n) ==
    IF n >= 0 THEN <<n \div 65536, n % 65536>> ELSE <<0, 0>>

\* n as u32, for an i32 n (the `as u32` cast: n mod 2^32)
AsU32(n) ==
    IF n >= 0 THEN <<n \div 65536, n % 65536>>
    ELSE LET y == (n + 2147483647) + 1
         IN <<32768 + (y \div 65536), y % 65536>>

\* a < b on u32 values
U32Lt(a, b) == a[1] < b[1] \/ (a[1] = b[1] /\ a[2] < b[2])

\* a u32 below 2^31 as an integer
U32Val(a) == a[1] * 65536 + a[2]

(***************************************************************************)
(* tgaimage: colours and the pixel store.                                  *)
(***************************************************************************)
\* TGAImageFormat
Grayscale == 1
RGB == 3
RGBA == 4

\* TGAColor::new_rgba
new_rgba(r, g, b, a) == [bgra |-> <<b, g, r, a>>, bytespp |-> 4]

\* TGAColor::default()
TGAColor_default == [bgra |-> <<0, 0, 0, 0>>, bytespp |-> 0]

WHITE == new_rgba(255, 255, 255, 255)
RED == new_rgba(255, 0, 0, 0)
GREEN == new_rgba(0, 128, 0, 0)

\* The low and the high 16 bits of the product of two 16-bit numbers
Mul16Lo(x, y) == ((x % 256) * y + (((x \div 256) * y) % 256) * 256) % 65536
Mul16Hi(x, y) ==
    ((x \div 256) * y) \div 256
        + ((x % 256) * y + (((x \div 256) * y) % 256) * 256) \div 65536

\* a * b on u32 values in a build without overflow checks: the product
\* modulo 2^32
U32Mul(a, b) ==
    <<(Mul16Hi(a[2], b[2]) + Mul16Lo(a[1], b[2]) + Mul16Lo(a[2], b[1])) % 65536,
      Mul16Lo(a[2], b[2])>>

\* a * b on u32 values overflows: a build with overflow checks panics
U32MulOverflows(a, b) ==
    \/ a[1] # 0 /\ b[1] # 0
    \/ a[1] # 0 /\ b[2] > 65535 \div a[1]
    \/ b[1] # 0 /\ a[2] > 65535 \div b[1]
    \/ a[1] * b[2] + a[2] * b[1] + Mul16Hi(a[2], b[2]) > 65535

\* TGAImage::new: width * height * bytespp as u32 overflows
TGAImage_new_overflows(width, height, bytespp) ==
    \/ U32MulOverflows(AsU32(width), AsU32(height))
    \/ U32MulOverflows(U32Mul(AsU32(width), AsU32(height)), AsU32(bytespp))

TGAImage_new_one_byte(width, height, bytespp) ==
    [data |-> [i \in 1..U32Val(U32Mul(AsU32(width), AsU32(height))) |-> 0],
     width |-> width, height |-> height, bytespp |-> bytespp]

\* TGAImage::new
TGAImage_new(width, height, bytespp) ==
    [data |-> [i \in 1..U32Val(U32Mul(U32Mul(AsU32(width), AsU32(height)),
                                       AsU32(bytespp))) |-> 0],
     width |-> width, height |-> height, bytespp |-> bytespp]

\* TGAImage::clear
TGAImage_clear(img) == [img EXCEPT !.data = [i \in 1..Len(img.data) |-> 0]]

\* image.buffer()[index] = value, the index counted from 0
TGAImage_buffer_store(img, index, value) == [img EXCEPT !.data[index + 1] = value]

TGAImage_set_transposed(img, x, y, color) ==
    IF Len(img.data) # 0 /\ U32Lt(x, AsU32(img.width)) /\ U32Lt(y, AsU32(img.height))
    THEN LET offset == (U32Val(y) + U32Val(x) * img.width) * img.bytespp
         IN [img EXCEPT !.data =
                [i \in 1..Len(img.data) |->
                    IF offset < i /\ i <= offset + img.bytespp
                    THEN color.bgra[i - offset]
                    ELSE img.data[i]]]
    ELSE img

\* TGAImage::set, x and y being u32 values; data[k + 1] is byte k of the buffer
TGAImage_set(img, x, y, color) ==
    IF Len(img.data) # 0 /\ U32Lt(x, AsU32(img.width)) /\ U32Lt(y, AsU32(img.height))
    THEN LET offset == (U32Val(x) + U32Val(y) * img.width) * img.bytespp
         IN [img EXCEPT !.data =
                [i \in 1..Len(img.data) |->
                    IF offset < i /\ i <= offset + img.bytespp
                    THEN color.bgra[i - offset]
                    ELSE img.data[i]]]
    ELSE img

new_from_iter_rgba(values, bytespp) ==
    [bgra |-> [i \in 1..4 |-> IF i <= Len(values) THEN values[i] ELSE 0],
     bytespp |-> RGBA]

\* TGAColor::new_from_iter
new_from_iter(values, bytespp) ==
    [bgra |-> [i \in 1..4 |-> IF i <= Len(values) THEN values[i] ELSE 0],
     bytespp |-> bytespp]

\* TGAImage::get, x and y being u32 values
TGAImage_get(img, x, y) ==
    IF Len(img.data) = 0 \/ ~U32Lt(x, AsU32(img.width)) \/ ~U32Lt(y, AsU32(img.height))
    THEN TGAColor_default
    ELSE LET offset == (U32Val(x) + U32Val(y) * img.width) * img.bytespp
         IN new_from_iter([i \in 1..img.bytespp |-> img.data[offset + i]], img.bytespp)

(***************************************************************************)
(* The barycentric solver.  A vertex is a tuple <<x, y>> or <<x, y, z>>.   *)
(***************************************************************************)
None == [some |-> FALSE]

barycentric_contains_strict(u, v) ==
    FLt(FZero, u) /\ FLt(FZero, v) /\ FLt(FAdd(u, v), ToF32(1))

barycentric_det_sum(side_one_x, side_one_y, side_two_x, side_two_y) ==
    side_one_x * side_two_y + side_one_y * side_two_x

\* barycentric(): the determinant of the matrix of the two sides
barycentric_det(side_one_x, side_one_y, side_two_x, side_two_y) ==
    side_one_x * side_two_y - side_one_y * side_two_x

barycentric_w_without_v(u, v) == FSub(ToF32(1), u)

\* barycentric(): w = 1.0 - u - v
barycentric_w(u, v) == FSub(FSub(ToF32(1), u), v)

\* barycentric(): the containment test u >= 0 && v >= 0 && u + v <= 1
barycentric_contains(u, v) ==
    FGe(u, FZero) /\ FGe(v, FZero) /\ FLe(FAdd(u, v), ToF32(1))

\* barycentric(): None, or Some(PointBarycentricCoords {u, v, w})
barycentric(triangle_points, point) ==
    LET point_vec_x == point[1] - triangle_points[1][1]
        point_vec_y == point[2] - triangle_points[1][2]
        side_one_x  == triangle_points[2][1] - triangle_points[1][1]
        side_one_y  == triangle_points[2][2] - triangle_points[1][2]
        side_two_x  == triangle_points[3][1] - triangle_points[1][1]
        side_two_y  == triangle_points[3][2] - triangle_points[1][2]
        det         == barycentric_det(side_one_x, side_one_y, side_two_x, side_two_y)
    IN IF det = 0 THEN None
       ELSE LET result_0 == side_two_y * point_vec_x + (-side_two_x) * point_vec_y
                result_1 == (-side_one_y) * point_vec_x + side_one_x * point_vec_y
                detf     == ToF32(det)
                u        == FDiv(ToF32(result_0), detf)
                v        == FDiv(ToF32(result_1), detf)
                w        == barycentric_w(u, v)
            IN IF barycentric_contains(u, v)
               THEN [some |-> TRUE, u |-> u, v |-> v, w |-> w]
               ELSE None

(***************************************************************************)
(* tgaimage: run-length encoding.  A stream is a sequence of bytes.        *)
(***************************************************************************)
MAX_CHUNK_LENGTH == 128

\* unload_rle_data(): the bytes of the pixel at curbyte equal those of the
\* next pixel (the for loop over the bytes of the pixel)
succ_eq(self, curbyte) ==
    \A i \in 0..(self.bytespp - 1) :
        self.data[curbyte + i + 1] = self.data[curbyte + i + self.bytespp + 1]

unload_rle_step_uncapped(self, npixels, curpix, st) ==
    IF curpix + st.run_length < npixels
    THEN LET eq  == succ_eq(self, st.curbyte)
             raw == IF st.run_length = 1 THEN ~eq ELSE st.raw
         IN IF raw /\ eq
            THEN [curbyte |-> st.curbyte + self.bytespp,
                  run_length |-> st.run_length - 1, raw |-> raw, done |-> TRUE]
            ELSE IF ~raw /\ ~eq
            THEN [curbyte |-> st.curbyte + self.bytespp,
                  run_length |-> st.run_length, raw |-> raw, done |-> TRUE]
            ELSE [curbyte |-> st.curbyte + self.bytespp,
                  run_length |-> st.run_length + 1, raw |-> raw, done |-> FALSE]
    ELSE [st EXCEPT !.done = TRUE]

\* unload_rle_data(): the test and one iteration of the inner while loop,
\* which finds the length and the kind of the packet that starts at the
\* pixel curpix.  st holds curbyte, run_length and raw, and in done whether
\* the loop has ended (its condition failed or it reached a break)
unload_rle_step(self, npixels, curpix, st) ==
    IF curpix + st.run_length < npixels /\ st.run_length < MAX_CHUNK_LENGTH
    THEN LET eq  == succ_eq(self, st.curbyte)
             raw == IF st.run_length = 1 THEN ~eq ELSE st.raw
         IN IF raw /\ eq
            THEN [curbyte |-> st.curbyte + self.bytespp,
                  run_length |-> st.run_length - 1, raw |-> raw, done |-> TRUE]
            ELSE IF ~raw /\ ~eq
            THEN [curbyte |-> st.curbyte + self.bytespp,
                  run_length |-> st.run_length, raw |-> raw, done |-> TRUE]
            ELSE [curbyte |-> st.curbyte + self.bytespp,
                  run_length |-> st.run_length + 1, raw |-> raw, done |-> FALSE]
    ELSE [st EXCEPT !.done = TRUE]

\* The inner while loop is run in stretches of RleStride iterations
RleStride == 16

\* unload_rle_data(): up to n iterations of the inner while loop
RECURSIVE unload_rle_stretch(_, _, _, _, _)
unload_rle_stretch(self, npixels, curpix, st, n) ==
    IF n = 0 \/ st.done THEN st
    ELSE With(unload_rle_step(self, npixels, curpix, st), LAMBDA next :
             unload_rle_stretch(self, npixels, curpix, next, n - 1))

\* unload_rle_data(): the inner while loop, to its end
RECURSIVE unload_rle_chunk(_, _, _, _)
unload_rle_chunk(self, npixels, curpix, st) ==
    IF st.done THEN st
    ELSE With(unload_rle_stretch(self, npixels, curpix, st, RleStride), LAMBDA next :
             unload_rle_chunk(self, npixels, curpix, next))

\* unload_rle_data(): the outer while loop.  out holds the stream written
\* so far and, in packets, the run_length of every packet written
RECURSIVE unload_rle_loop(_, _, _, _)
unload_rle_loop(self, npixels, curpix, out) ==
    IF curpix < npixels
    THEN With(unload_rle_chunk(self, npixels, curpix,
                               [curbyte |-> curpix * self.bytespp, run_length |-> 1,
                                raw |-> TRUE, done |-> FALSE]),
              LAMBDA c :
                LET chunkstart == curpix * self.bytespp
                    header     == IF c.raw THEN c.run_length - 1 ELSE c.run_length + 127
                    to_write   == IF c.raw THEN c.run_length * self.bytespp
                                  ELSE self.bytespp
                IN unload_rle_loop(self, npixels, curpix + c.run_length,
                       [stream  |-> out.stream \o <<header>>
                                        \o SubSeq(self.data, chunkstart + 1,
                                                   chunkstart + to_write),
                        packets |-> Append(out.packets, c.run_length)]))
    ELSE out

\* TGAImage::unload_rle_data() into a writer that takes every byte
unload_rle_data(self) ==
    unload_rle_loop(self, self.width * self.height, 0,
                    [stream |-> << >>, packets |-> << >>])

\* input.read_exact(&mut data[offset_start..offset_end]) with the input at
\* position pos of the stream: the data after it
read_exact(stream, pos, data, offset_start, offset_end) ==
    [i \in 1..Len(data) |->
        IF offset_start < i /\ i <= offset_end
        THEN stream[pos + i - offset_start]
        ELSE data[i]]

\* data.copy_within(origin..origin + bytespp, offset), packet_size - 1 times
\* at consecutive offsets
copy_within(data, origin, offset, bytespp, times) ==
    [i \in 1..Len(data) |->
        IF offset < i /\ i <= offset + bytespp * times
        THEN data[origin + 1 + ((i - offset - 1) % bytespp)]
        ELSE data[i]]

\* load_rle_data(): the while loop, the input being at position pos of the
\* stream.  failed tells that read_exact returned an error, a slice was out
\* of range or an assertion failed
RECURSIVE load_rle_loop(_, _, _, _, _, _, _)
load_rle_loop(stream, pos, data, current_pixel, current_offset, pixel_count, bytespp) ==
    IF current_pixel < pixel_count
    THEN IF pos + 1 > Len(stream) THEN [data |-> data, failed |-> TRUE]
         ELSE LET header == stream[pos + 1]
              IN IF header < 128
                 THEN LET packet_size == header + 1
                          offset_end  == current_offset + bytespp * packet_size
                      IN IF offset_end > Len(data)
                            \/ pos + 1 + bytespp * packet_size > Len(stream)
                         THEN [data |-> data, failed |-> TRUE]
                         ELSE load_rle_loop(stream, pos + 1 + bytespp * packet_size,
                                  read_exact(stream, pos + 1, data, current_offset,
                                             offset_end),
                                  current_pixel + packet_size, offset_end,
                                  pixel_count, bytespp)
                 ELSE LET packet_size == (header - 128) + 1
                      IN IF current_offset + bytespp > Len(data)
                            \/ pos + 1 + bytespp > Len(stream)
                            \/ current_offset + bytespp * packet_size > Len(data)
                            \/ current_pixel + packet_size > pixel_count
                         THEN [data |-> data, failed |-> TRUE]
                         ELSE load_rle_loop(stream, pos + 1 + bytespp,
                                  copy_within(
                                      read_exact(stream, pos + 1, data, current_offset,
                                                 current_offset + bytespp),
                                      current_offset, current_offset + bytespp,
                                      bytespp, packet_size - 1),
                                  current_pixel + packet_size,
                                  current_offset + bytespp * packet_size,
                                  pixel_count, bytespp)
    ELSE [data |-> data, failed |-> current_pixel # pixel_count]

\* TGAImage::load_rle_data(input, data, &(height, width, bytespp))
load_rle_data(stream, data, height, width, bytespp) ==
    load_rle_loop(stream, 0, data, 0, 0, height * width, bytespp)

(***************************************************************************)
(* The bounding-box clipper and the barycentric fills.                     *)
(***************************************************************************)
\* i32::MAX (T::max_value()); i32::MIN is -I32Max - 1
I32Max == 2147483647
I32Min == -I32Max - 1

\* a + b on i32 values overflows: a build with overflow checks panics
I32AddOverflows(a, b) ==
    \/ b > 0 /\ a > I32Max - b
    \/ b < 0 /\ a < I32Min - b

\* a + b on i32 values in a build without overflow checks: the sum modulo
\* 2^32, as an i32
I32Add(a, b) ==
    IF b > 0 /\ a > I32Max - b THEN ((a - I32Max) - 1) + ((b - I32Max) - 1)
    ELSE IF b < 0 /\ a < I32Min - b THEN ((a + I32Max) + 1) + ((b + I32Max) + 1)
    ELSE a + b

\* a - b on i32 values
I32SubOverflows(a, b) ==
    IF b = I32Min THEN a >= 0 ELSE I32AddOverflows(a, -b)
I32Sub(a, b) ==
    IF b = I32Min
    THEN IF a >= 0 THEN a + I32Min ELSE (a + I32Max) + 1
    ELSE I32Add(a, -b)

\* a.abs() on an i32 value: i32::MIN.abs() overflows and wraps to i32::MIN
I32AbsOverflows(a) == a = I32Min
I32Abs(a) == IF a < 0 /\ a # I32Min THEN -a ELSE a

boundary_box_step_unclamped(box, clamp, point) ==
    <<  <<Min(box[1][1], point[1]), Min(box[1][2], point[2])>>,
        <<Max(box[2][1], point[1]), Max(box[2][2], point[2])>>  >>

boundary_box_step_to_size(box, clamp, point) ==
    <<  <<Max(0, Min(box[1][1], point[1])), Max(0, Min(box[1][2], point[2]))>>,
        <<Min(clamp[1] + 1, Max(box[2][1], point[1])),
          Min(clamp[2] + 1, Max(box[2][2], point[2]))>>  >>

\* boundary_box_setup(): one pass of the loop over the points; box = <<min, max>>
boundary_box_step(box, clamp, point) ==
    <<  <<Max(0, Min(box[1][1], point[1])), Max(0, Min(box[1][2], point[2]))>>,
        <<Min(clamp[1], Max(box[2][1], point[1])),
          Min(clamp[2], Max(box[2][2], point[2]))>>  >>

\* boundary_box_setup(): <<boundary_box_min, boundary_box_max>>
boundary_box_setup(points, width, height) ==
    LET box0  == << <<I32Max, I32Max>>, <<-I32Max - 1, -I32Max - 1>> >>
        clamp == <<width - 1, height - 1>>
    IN boundary_box_step(
           boundary_box_step(
               boundary_box_step(box0, clamp, points[1]), clamp, points[2]),
           clamp, points[3])

box_scan_exclusive(box) ==
    LET nx == Max(0, box[2][1] - box[1][1])
        ny == Max(0, box[2][2] - box[1][2])
    IN [i \in 1..(nx * ny) |->
           <<box[1][1] + ((i - 1) \div ny), box[1][2] + ((i - 1) % ny)>>]

\* The pixels the two nested loops `for x in min.x..=max.x { for y in
\* min.y..=max.y` visit, in order
box_scan(box) ==
    LET nx == Max(0, box[2][1] - box[1][1] + 1)
        ny == Max(0, box[2][2] - box[1][2] + 1)
    IN [i \in 1..(nx * ny) |->
           <<box[1][1] + ((i - 1) \div ny), box[1][2] + ((i - 1) % ny)>>]

\* The loop of triangle_barycentric() from the i-th scanned pixel on
RECURSIVE triangle_barycentric_loop(_, _, _, _, _)
triangle_barycentric_loop(points, scan, i, color, st) ==
    IF i > Len(scan) THEN st
    ELSE With(st, LAMBDA s :
             LET x == scan[i][1]
                 y == scan[i][2]
             IN IF barycentric(points, <<x, y>>).some
                THEN triangle_barycentric_loop(points, scan, i + 1, color,
                         [image |-> TGAImage_set(s.image, AsU32(x), AsU32(y), color),
                          sets  |-> Append(s.sets, <<x, y>>)])
                ELSE triangle_barycentric_loop(points, scan, i + 1, color, s))

\* triangle_barycentric()
triangle_barycentric(v1, v2, v3, color, image) ==
    With(box_scan(boundary_box_setup(<<v1, v2, v3>>, image.width, image.height)),
         LAMBDA scan :
             triangle_barycentric_loop(<<v1, v2, v3>>, scan, 1, color,
                                       [image |-> image, sets |-> << >>]))

interpolate_z_rotated(points, bc) ==
    FAdd(FAdd(FMul(ToF32(points[1][3]), bc.u), FMul(ToF32(points[2][3]), bc.v)),
         FMul(ToF32(points[3][3]), bc.w))

\* z = z0*w + z1*u + z2*v, as the depth-buffered fills compute it
interpolate_z(points, bc) ==
    FAdd(FAdd(FMul(ToF32(points[1][3]), bc.w), FMul(ToF32(points[2][3]), bc.u)),
         FMul(ToF32(points[3][3]), bc.v))

depth_test_or_equal(stored, z) == FLe(stored, z)

depth_test_always(stored, z) == TRUE

\* The depth test of the depth-buffered fills: zbuf[index] < z, the new depth
\* wins only if it is strictly greater
depth_test(stored, z) == FLt(stored, z)

\* The loop of triangle_barycentric_zbuf() from the i-th scanned pixel on;
\* st.z is the local z, which is also the (unused) z of the query point
\* a + b on u32 values, wrapping, and whether it overflows
U32Add(a, b) ==
    <<(a[1] + b[1] + (a[2] + b[2]) \div 65536) % 65536, (a[2] + b[2]) % 65536>>
U32AddOverflows(a, b) == a[1] + b[1] + (a[2] + b[2]) \div 65536 > 65535

zbuf_index_first_row(x, y, width) == [index |-> AsU32(x), panics |-> FALSE]

\* triangle_barycentric_zbuf():
\* (x as u32 + y as u32 * image.get_width() as u32) as usize, a u32.  The
\* sum is below width * height and does not overflow for a pixel of an image
zbuf_index(x, y, width) ==
    [index  |-> U32Add(AsU32(x), U32Mul(AsU32(y), AsU32(width))),
     panics |-> FALSE]

\* triangle_barycentric_zbuf_with_texture():
\* (x + y * image.get_width() as i32) as usize for x, y >= 0, computed in
\* i32.  From 2^31 on the product or the sum overflows: a build with
\* overflow checks panics there, and one without them wraps to a negative
\* i32, which as usize is an index beyond every slice, and panics at
\* zbuf[index]
zbuf_index_with_texture(x, y, width) ==
    LET product == U32Mul(AsU32(y), AsU32(width))
        sum     == U32Add(AsU32(x), product)
    IN [index  |-> sum,
        panics |-> \/ U32MulOverflows(AsU32(y), AsU32(width))
                   \/ product[1] >= 32768
                   \/ U32AddOverflows(AsU32(x), product)
                   \/ sum[1] >= 32768]

RECURSIVE triangle_barycentric_zbuf_loop(_, _, _, _, _)
triangle_barycentric_zbuf_loop(points, scan, i, color, st) ==
    IF i > Len(scan) THEN st
    ELSE With(st, LAMBDA s :
         With(barycentric(points, <<scan[i][1], scan[i][2], ToI32(s.z)>>), LAMBDA bc :
             LET x == scan[i][1]
                 y == scan[i][2]
             IN IF bc.some
                THEN With(interpolate_z(points, bc), LAMBDA z :
                     LET index == U32Val(zbuf_index(x, y, s.image.width).index)
                     IN IF depth_test(s.zbuf[index + 1], z)
                        THEN triangle_barycentric_zbuf_loop(points, scan, i + 1, color,
                                 [image |-> TGAImage_set(s.image, AsU32(x), AsU32(y), color),
                                  zbuf  |-> [s.zbuf EXCEPT ![index + 1] = z],
                                  sets  |-> Append(s.sets, <<x, y>>),
                                  z     |-> z,
                                  panicked |-> FALSE])
                        ELSE triangle_barycentric_zbuf_loop(points, scan, i + 1, color,
                                 [s EXCEPT !.z = z]))
                ELSE triangle_barycentric_zbuf_loop(points, scan, i + 1, color, s)))

\* triangle_barycentric_zbuf()
triangle_barycentric_zbuf(v1, v2, v3, zb, color, image) ==
    With(box_scan(boundary_box_setup(
             << <<v1[1], v1[2]>>, <<v2[1], v2[2]>>, <<v3[1], v3[2]>> >>,
             image.width, image.height)),
         LAMBDA scan :
             triangle_barycentric_zbuf_loop(<<v1, v2, v3>>, scan, 1, color,
                 [image |-> image, zbuf |-> zb, sets |-> << >>, z |-> FZero,
                  panicked |-> FALSE]))

\* f32::min and f32::max
FMin(a, b) == IF FLt(b, a) THEN b ELSE a
FMax(a, b) == IF FLt(a, b) THEN b ELSE a

\* Mul<f32> for TGAColor: every channel scaled by the factor clamped to [0, 1]
TGAColor_mul(color, rhs) ==
    LET clamped == FMax(FZero, FMin(rhs, ToF32(1)))
    IN [color EXCEPT !.bgra =
           [i \in 1..4 |-> ToI32(FMul(ToF32(color.bgra[i]), clamped))]]

\* Mul<f32> for Vector2<i32>
Vector2_mul(vec, rhs) ==
    <<ToI32(FMul(ToF32(vec[1]), rhs)), ToI32(FMul(ToF32(vec[2]), rhs))>>

\* Add for Vector2
Vector2_add(a, b) == <<a[1] + b[1], a[2] + b[2]>>

\* uv_p = t0*w + t1*u + t2*v, as the textured fill computes it
interpolate_uv(texture_def, bc) ==
    Vector2_add(Vector2_add(Vector2_mul(texture_def[1], bc.w),
                            Vector2_mul(texture_def[2], bc.u)),
                Vector2_mul(texture_def[3], bc.v))

\* Model::diffuse(); a model is a record whose diffusemap is None or Some(image)
Model_diffuse(model, uv) ==
    IF model.diffusemap.some
    THEN [some |-> TRUE,
          val  |-> TGAImage_get(model.diffusemap.val, AsU32(uv[1]), AsU32(uv[2]))]
    ELSE None

\* The loop of triangle_barycentric_zbuf_with_texture() from the i-th scanned
\* pixel on; color.unwrap() on a model without a texture panics, which ends the
\* call with the depth cell already stored
RECURSIVE triangle_barycentric_zbuf_with_texture_loop(_, _, _, _, _, _, _)
triangle_barycentric_zbuf_with_texture_loop(points, texture_def, scan, i, model, intensity, st) ==
    IF i > Len(scan) THEN st
    ELSE With(st, LAMBDA s :
         With(barycentric(points, scan[i]), LAMBDA bc :
             LET x == scan[i][1]
                 y == scan[i][2]
             IN IF bc.some
                THEN With(interpolate_z(points, bc), LAMBDA z :
                     LET at    == zbuf_index_with_texture(x, y, s.image.width)
                         index == U32Val(at.index)
                     IN IF at.panics THEN [s EXCEPT !.panicked = TRUE]
                        ELSE IF depth_test(s.zbuf[index + 1], z)
                        THEN With(Model_diffuse(model, interpolate_uv(texture_def, bc)),
                             LAMBDA color :
                                 IF color.some
                                 THEN triangle_barycentric_zbuf_with_texture_loop(
                                          points, texture_def, scan, i + 1, model, intensity,
                                          [image |-> TGAImage_set(s.image, AsU32(x), AsU32(y),
                                                         TGAColor_mul(color.val, intensity)),
                                           zbuf  |-> [s.zbuf EXCEPT ![index + 1] = z],
                                           sets  |-> Append(s.sets, <<x, y>>),
                                           z     |-> z,
                                           panicked |-> FALSE])
                                 ELSE [s EXCEPT !.zbuf[index + 1] = z, !.panicked = TRUE])
                        ELSE triangle_barycentric_zbuf_with_texture_loop(
                                 points, texture_def, scan, i + 1, model, intensity, s))
                ELSE triangle_barycentric_zbuf_with_texture_loop(
                         points, texture_def, scan, i + 1, model, intensity, s)))

\* triangle_barycentric_zbuf_with_texture()
triangle_barycentric_zbuf_with_texture(triangle_def, texture_def, zb, image, model, intensity) ==
    With(box_scan(boundary_box_setup(
             << <<triangle_def[1][1], triangle_def[1][2]>>,
                <<triangle_def[2][1], triangle_def[2][2]>>,
                <<triangle_def[3][1], triangle_def[3][2]>> >>,
             image.width, image.height)),
         LAMBDA scan :
             triangle_barycentric_zbuf_with_texture_loop(
                 triangle_def, texture_def, scan, 1, model, intensity,
                 [image |-> image, zbuf |-> zb, sets |-> << >>, z |-> FZero,
                  panicked |-> FALSE]))

line_steep_never(x0, y0, x1, y1) == FALSE

(***************************************************************************)
(* The line rasterizer.  A rasterizer's result is a record holding the     *)
(* image it leaves and `sets`, the coordinates (still i32) of the calls of *)
(* TGAImage::set it made, in order.                                        *)
(***************************************************************************)
\* line(): the test that swaps x and y of a steep line
line_steep(x0, y0, x1, y1) ==
    I32Abs(I32Sub(x0, x1)) < I32Abs(I32Sub(y0, y1))

line_ordered_ykept(x0, y0, x1, y1) ==
    IF x0 > x1 THEN <<x1, y0, x0, y1>> ELSE <<x0, y0, x1, y1>>

\* line(): the swap of the endpoints that makes x0 <= x1
line_ordered(x0, y0, x1, y1) ==
    IF x0 > x1 THEN <<x1, y1, x0, y0>> ELSE <<x0, y0, x1, y1>>

line_derror2_single(dy) == I32Abs(dy)

\* line(): the error added per step
line_derror2(dy) == I32Add(I32Abs(dy), I32Abs(dy))

line_done_exclusive(x, x1) == x >= x1

\* line(): the end of the range x0..=x1
line_done(x, x1) == x > x1

\* line(): an operation before the loop overflows
line_setup_overflows(x0, y0, x1, y1) ==
    \/ I32SubOverflows(x0, x1) \/ I32AbsOverflows(I32Sub(x0, x1))
    \/ I32SubOverflows(y0, y1) \/ I32AbsOverflows(I32Sub(y0, y1))
    \/ LET o == IF line_steep(x0, y0, x1, y1) THEN line_ordered(y0, x0, y1, x1)
                ELSE line_ordered(x0, y0, x1, y1)
       IN \/ I32SubOverflows(o[3], o[1])
          \/ I32SubOverflows(o[4], o[2])
          \/ I32AbsOverflows(I32Sub(o[4], o[2]))
          \/ I32AddOverflows(I32Abs(I32Sub(o[4], o[2])), I32Abs(I32Sub(o[4], o[2])))

\* line(): an operation of one iteration of the loop overflows
line_step_overflows(y, error2, dx, derror2, y_step) ==
    \/ I32AddOverflows(error2, derror2)
    \/ /\ I32Add(error2, derror2) > dx
       /\ \/ I32AddOverflows(y, y_step)
          \/ I32AddOverflows(dx, dx)
          \/ I32SubOverflows(I32Add(error2, derror2), I32Add(dx, dx))

\* The loop of line(), from major coordinate x on; errs collects the value of
\* error2 at the end of every iteration.  The arithmetic is that of a build
\* without overflow checks; panicked tells that an operation has overflowed,
\* where a build with overflow checks panics, and checked holds what that
\* build has written by then
RECURSIVE line_loop(_, _, _, _, _, _, _, _, _, _)
line_loop(x, x1, y, error2, steep, dx, derror2, y_step, color, st) ==
    IF line_done(x, x1) THEN st
    ELSE LET px   == IF steep THEN y ELSE x
             py   == IF steep THEN x ELSE y
             e    == I32Add(error2, derror2)
             step == e > dx
             e2   == IF step THEN I32Sub(e, I32Add(dx, dx)) ELSE e
         IN With([image |-> TGAImage_set(st.image, AsU32(px), AsU32(py), color),
                  sets  |-> Append(st.sets, <<px, py>>)],
                 LAMBDA w :
                    line_loop(x + 1, x1, IF step THEN I32Add(y, y_step) ELSE y, e2,
                              steep, dx, derror2, y_step, color,
                              [image |-> w.image,
                               sets  |-> w.sets,
                               errs  |-> Append(st.errs, e2),
                               panicked |-> st.panicked
                                   \/ line_step_overflows(y, error2, dx, derror2, y_step),
                               checked |-> IF st.panicked THEN st.checked ELSE w]))

\* line()
line(x0, y0, x1, y1, color, image) ==
    LET steep == line_steep(x0, y0, x1, y1)
        o == IF steep THEN line_ordered(y0, x0, y1, x1)
             ELSE line_ordered(x0, y0, x1, y1)
        dx == I32Sub(o[3], o[1])
        dy == I32Sub(o[4], o[2])
        derror2 == line_derror2(dy)
        y_step == IF dy > 0 THEN 1 ELSE -1
    IN line_loop(o[1], o[3], o[2], 0, steep, dx, derror2, y_step, color,
                 [image |-> image, sets |-> << >>, errs |-> << >>,
                  panicked |-> line_setup_overflows(x0, y0, x1, y1),
                  checked |-> [image |-> image, sets |-> << >>]])

(***************************************************************************)
(* line.rs: the points of a Line, and the edge-walking fill triangle().    *)
(* A point is a tuple <<x, y>>.                                            *)
(***************************************************************************)
\* From<&Line> for SlopeParameters
SlopeParameters_from(start, end) ==
    LET dx == end[1] - start[1]
        dy == end[2] - start[2]
        dx_abs == Abs(dx)
        dy_abs == Abs(dy)
    IN IF dx_abs < dy_abs
       THEN [is_steep |-> TRUE,
             error_threshold |-> dy_abs,
             derror_step |-> [major |-> 2 * dx_abs, minor |-> 2 * dy_abs],
             position_step |-> [major |-> <<0, Sgn(dy)>>, minor |-> <<Sgn(dx), 0>>],
             length |-> dy_abs]
       ELSE [is_steep |-> FALSE,
             error_threshold |-> dx_abs,
             derror_step |-> [major |-> 2 * dy_abs, minor |-> 2 * dx_abs],
             position_step |-> [major |-> <<Sgn(dx), 0>>, minor |-> <<0, Sgn(dy)>>],
             length |-> dx_abs]

\* AddAssign for Point
Point_add(a, b) == <<a[1] + b[1], a[2] + b[2]>>

\* BresenhamWrapper::new()
BresenhamWrapper_new(start_point) == [current_point |-> start_point, error |-> 0]

\* BresenhamWrapper::next(): the wrapper after the call, and the point returned
BresenhamWrapper_next(self, parameters) ==
    LET moved == IF self.error > parameters.error_threshold
                 THEN [current_point |-> Point_add(self.current_point,
                                                   parameters.position_step.minor),
                       error |-> self.error - parameters.derror_step.minor]
                 ELSE self
    IN [ret  |-> moved.current_point,
        self |-> [current_point |-> Point_add(moved.current_point,
                                              parameters.position_step.major),
                  error |-> moved.error + parameters.derror_step.major]]

Points_new_short(start, end) ==
    LET parameters == SlopeParameters_from(start, end)
    IN [parameters |-> parameters,
        bresenham |-> BresenhamWrapper_new(start),
        points_remaining |-> parameters.length]

\* Points::new()
Points_new(start, end) ==
    LET parameters == SlopeParameters_from(start, end)
    IN [parameters |-> parameters,
        bresenham |-> BresenhamWrapper_new(start),
        points_remaining |-> parameters.length + 1]

\* Iterator::next() for Points, until it returns None: the points it yields
RECURSIVE Points_collect(_, _)
Points_collect(self, acc) ==
    IF self.points_remaining > 0
    THEN LET n == BresenhamWrapper_next(self.bresenham, self.parameters)
         IN Points_collect([self EXCEPT !.points_remaining = @ - 1,
                                        !.bresenham = n.self],
                           Append(acc, n.ret))
    ELSE acc

\* Iterator::next() for Points: the iterator after the call, and the Option
\* returned
Points_next(self) ==
    IF self.points_remaining > 0
    THEN LET n == BresenhamWrapper_next(self.bresenham, self.parameters)
         IN [self |-> [self EXCEPT !.points_remaining = @ - 1, !.bresenham = n.self],
             ret  |-> [some |-> TRUE, value |-> n.ret]]
    ELSE [self |-> self, ret |-> None]

\* Line::points(), collected
Line_points(start, end) == Points_collect(Points_new(start, end), << >>)

\* skip_while(|p| p.y != y): the index of the first point of the row y, or
\* Len(points) + 1
RECURSIVE skip_while(_, _, _)
skip_while(points, y, i) ==
    IF i <= Len(points) /\ points[i][2] # y THEN skip_while(points, y, i + 1) ELSE i

\* take_while(|p| p.y == y) ... for_each: min_p and max_p over the points of
\* the row y from the i-th on, up to the first point of another row
RECURSIVE take_while(_, _, _, _)
take_while(points, y, i, span) ==
    IF i <= Len(points) /\ points[i][2] = y
    THEN take_while(points, y, i + 1,
                    [min_p |-> Min(span.min_p, points[i][1]),
                     max_p |-> Max(span.max_p, points[i][1])])
    ELSE span

RECURSIVE fill_span_exclusive(_, _, _, _, _)
fill_span_exclusive(x, max_p, y, color, st) ==
    IF x >= max_p THEN st
    ELSE fill_span_exclusive(x + 1, max_p, y, color,
                   [image |-> TGAImage_set(st.image, AsU32(x), AsU32(y), color),
                    sets  |-> Append(st.sets, <<x, y>>)])

\* for x in min_p..=max_p { image.set(x as u32, y as u32, color) }
RECURSIVE fill_span(_, _, _, _, _)
fill_span(x, max_p, y, color, st) ==
    IF x > max_p THEN st
    ELSE fill_span(x + 1, max_p, y, color,
                   [image |-> TGAImage_set(st.image, AsU32(x), AsU32(y), color),
                    sets  |-> Append(st.sets, <<x, y>>)])

RECURSIVE fill_flat_rows_open(_, _, _, _, _, _)
fill_flat_rows_open(y, y_end, slope1, slope2, color, st) ==
    IF y >= y_end THEN st
    ELSE LET none == [min_p |-> I32Max, max_p |-> -I32Max - 1]
             s1   == take_while(slope1, y, skip_while(slope1, y, 1), none)
             s2   == take_while(slope2, y, skip_while(slope2, y, 1), s1)
         IN fill_flat_rows_open(y + 1, y_end, slope1, slope2, color,
                                fill_span(s2.min_p, s2.max_p, y, color, st))

\* fill_flat_triangle(): the rows y..=y_end
RECURSIVE fill_flat_rows(_, _, _, _, _, _)
fill_flat_rows(y, y_end, slope1, slope2, color, st) ==
    IF y > y_end THEN st
    ELSE LET none == [min_p |-> I32Max, max_p |-> -I32Max - 1]
             s1   == take_while(slope1, y, skip_while(slope1, y, 1), none)
             s2   == take_while(slope2, y, skip_while(slope2, y, 1), s1)
         IN fill_flat_rows(y + 1, y_end, slope1, slope2, color,
                           fill_span(s2.min_p, s2.max_p, y, color, st))

\* fill_flat_triangle()
fill_flat_triangle(v1, v2, v3, color, st) ==
    fill_flat_rows(Min(v1[2], v2[2]), Max(v1[2], v2[2]),
                   Line_points(v1, v2), Line_points(v1, v3), color, st)

\* triangle_vertices_sort(): the three vertices after the three swaps
triangle_vertices_sort_two_swaps(v1, v2, v3) ==
    LET a == IF v1[2] > v2[2] THEN <<v2, v1, v3>> ELSE <<v1, v2, v3>>
    IN IF a[1][2] > a[3][2] THEN <<a[3], a[2], a[1]>> ELSE a

triangle_vertices_sort(v1, v2, v3) ==
    LET a == IF v1[2] > v2[2] THEN <<v2, v1, v3>> ELSE <<v1, v2, v3>>
        b == IF a[1][2] > a[3][2] THEN <<a[3], a[2], a[1]>> ELSE a
    IN IF b[2][2] > b[3][2] THEN <<b[1], b[3], b[2]>> ELSE b

\* triangle(): the x of the vertex v4 that splits the triangle at v2's row
triangle_split_x(v1, v2, v3) ==
    ToI32(FAdd(ToF32(v1[1]),
               FMul(FDiv(ToF32(v2[2] - v1[2]), ToF32(v3[2] - v1[2])),
                    ToF32(v3[1] - v1[1]))))

triangle_unsorted(p1, p2, p3, color, image) ==
    fill_flat_triangle(p1, p2, p3, color, [image |-> image, sets |-> << >>])

\* triangle()
triangle(p1, p2, p3, color, image) ==
    LET s  == triangle_vertices_sort(p1, p2, p3)
        v1 == s[1]
        v2 == s[2]
        v3 == s[3]
        st == [image |-> image, sets |-> << >>]
    IN IF v2[2] = v3[2] THEN fill_flat_triangle(v1, v2, v3, color, st)
       ELSE IF v1[2] = v2[2] THEN fill_flat_triangle(v3, v1, v2, color, st)
       ELSE LET v4 == <<triangle_split_x(v1, v2, v3), v2[2]>>
            IN fill_flat_triangle(v3, v2, v4, color,
                   fill_flat_triangle(v1, v2, v4, color, st))

(***************************************************************************)
(* State.                                                                  *)
(***************************************************************************)
VARIABLES
    image,   \* the framebuffer (a TGAImage)
    zbuf,    \* the caller-owned depth buffer, one f32 per pixel, row-major
    call,    \* the operation performed last and its arguments
    sets,    \* the coordinates of the TGAImage::set calls of that operation
    ret,     \* what else that operation produced
    calls    \* every operation performed so far on image and zbuf

vars == <<image, zbuf, call, sets, ret, calls>>

NoCall == [op |-> "none"]

\* vec![f32::NEG_INFINITY; width * height]
FreshZbuf(width, height) == [i \in 1..(width * height) |-> NEG_INFINITY]

\* The state before the first operation: a new RGB image and, for the
\* depth-buffered fills, a depth buffer filled with negative infinity
Fresh(width, height) ==
    /\ image = TGAImage_new(width, height, RGB)
    /\ zbuf = FreshZbuf(width, height)
    /\ call = NoCall
    /\ sets = << >>
    /\ ret = << >>
    /\ calls = << >>

\* The operation c has run with the given result: a fill without depth
\* buffer
Drawn(c, result) ==
    \E r \in {result} :
        /\ image' = r.image
        /\ sets' = r.sets
        /\ ret' = FALSE
        /\ call' = c
        /\ calls' = Append(calls, c)
        /\ UNCHANGED zbuf

\* The operation c has run with the given result: a depth-buffered fill; ret
\* tells whether the call panicked
DepthDrawn(c, result) ==
    \E r \in {result} :
        /\ image' = r.image
        /\ zbuf' = r.zbuf
        /\ sets' = r.sets
        /\ ret' = r.panicked
        /\ call' = c
        /\ calls' = Append(calls, c)

(***************************************************************************)
(* LineSpec: one call of line() on a fresh image.                          *)
(***************************************************************************)
\* Line endpoints range over -1..LineMax on both axes
LineMax == 4
\* The image lines are drawn into
LineWidth == 4
LineHeight == 3

LineCoords == -1..LineMax

LineInit == Fresh(LineWidth, LineHeight)

\* line() has run with the given result; ret is the error after each step
LineDrawn(c, result) ==
    \E r \in {result} :
        /\ image' = r.image
        /\ sets' = r.sets
        /\ ret' = r.errs
        /\ call' = c
        /\ calls' = Append(calls, c)
        /\ UNCHANGED zbuf

DrawLine ==
    /\ call = NoCall
    /\ \E x0 \in LineCoords, y0 \in LineCoords, x1 \in LineCoords, y1 \in LineCoords,
          color \in {WHITE, RED} :
          LineDrawn(
              [op |-> "line", x0 |-> x0, y0 |-> y0, x1 |-> x1, y1 |-> y1,
               color |-> color],
              line(x0, y0, x1, y1, color, image))

LineNext == DrawLine

LineSpec == LineInit /\ [][LineNext]_vars

(***************************************************************************)
(* BarySpec: one query of the barycentric solver.                          *)
(* FillSpec: one query, or one call of a barycentric fill on a fresh image *)
(* and a depth buffer filled with negative infinity.                       *)
(***************************************************************************)
\* Query points and the vertices of queried triangles range over 0..MaxCoord
\* on both axes
MaxCoord == 3
\* The vertices of filled triangles range over 0..MaxFill on both axes
MaxFill == 2
\* Vertex depths range over 0..MaxZ
MaxZ == 1
\* The image the fills draw into
FillWidth == 3
FillHeight == 3
\* The diffuse texture is TexSize x TexSize texels
TexSize == 2

Points2D == (0..MaxCoord) \X (0..MaxCoord)
FillPoints2D == (0..MaxFill) \X (0..MaxFill)
FillPoints3D == (0..MaxFill) \X (0..MaxFill) \X (0..MaxZ)
\* The texture coordinates of the three vertices: three corners of the texture
TextureDef == << <<0, 0>>, <<TexSize - 1, 0>>, <<TexSize - 1, TexSize - 1>> >>
\* Shading intensities: 1.0 and 0.5
Intensities == {ToF32(1), FDiv(ToF32(1), ToF32(2))}

\* A diffuse texture whose texels all differ: texel (x, y) is the colour
\* new_rgb(64 * (x + 1), 64 * (y + 1), 32)
RECURSIVE PaintTexture(_, _)
PaintTexture(img, i) ==
    IF i = img.width * img.height THEN img
    ELSE LET x == i % img.width
             y == i \div img.width
         IN PaintTexture(TGAImage_set(img, AsU32(x), AsU32(y),
                             new_rgba(64 * (x + 1), 64 * (y + 1), 32, 255)),
                         i + 1)

Texture == PaintTexture(TGAImage_new(TexSize, TexSize, RGB), 0)

\* A model with its diffuse texture loaded (Model::load_texture), and one
\* without
TexturedModel == [diffusemap |-> [some |-> TRUE, val |-> Texture]]
UntexturedModel == [diffusemap |-> None]

FillInit == Fresh(FillWidth, FillHeight)

\* barycentric() on a triangle and a point over the coordinates S
Query(S) ==
    /\ call = NoCall
    /\ \E v0 \in S, v1 \in S, v2 \in S, p \in S :
          /\ ret' = barycentric(<<v0, v1, v2>>, p)
          /\ call' = [op |-> "barycentric", points |-> <<v0, v1, v2>>, point |-> p]
          /\ calls' = Append(calls, call')
          /\ UNCHANGED <<image, zbuf, sets>>

FillFlat ==
    /\ call = NoCall
    /\ \E v1 \in FillPoints2D, v2 \in FillPoints2D, v3 \in FillPoints2D,
          color \in {WHITE, RED} :
          Drawn([op |-> "triangle_barycentric", points |-> <<v1, v2, v3>>,
                 color |-> color],
                triangle_barycentric(v1, v2, v3, color, image))

FillZbuf ==
    /\ call = NoCall
    /\ \E v1 \in FillPoints3D, v2 \in FillPoints3D, v3 \in FillPoints3D :
          DepthDrawn([op |-> "triangle_barycentric_zbuf", points |-> <<v1, v2, v3>>,
                      color |-> RED],
                     triangle_barycentric_zbuf(v1, v2, v3, zbuf, RED, image))

FillTexture ==
    /\ call = NoCall
    /\ \E v1 \in FillPoints3D, v2 \in FillPoints3D, v3 \in FillPoints3D,
          intensity \in Intensities :
          DepthDrawn([op |-> "triangle_barycentric_zbuf_with_texture",
                      points |-> <<v1, v2, v3>>, texture |-> TextureDef,
                      model |-> TexturedModel, intensity |-> intensity],
                     triangle_barycentric_zbuf_with_texture(
                         <<v1, v2, v3>>, TextureDef, zbuf, image, TexturedModel,
                         intensity))

\* The textured fill called on a model whose texture was never loaded
FillUntextured ==
    /\ call = NoCall
    /\ \E v1 \in FillPoints3D, v2 \in FillPoints3D, v3 \in FillPoints3D :
          DepthDrawn([op |-> "triangle_barycentric_zbuf_with_texture",
                      points |-> <<v1, v2, v3>>,
                      texture |-> TextureDef,
                      model |-> UntexturedModel, intensity |-> ToF32(1)],
                     triangle_barycentric_zbuf_with_texture(
                         <<v1, v2, v3>>, TextureDef, zbuf, image, UntexturedModel,
                         ToF32(1)))

BaryNext == Query(Points2D)

BarySpec == FillInit /\ [][BaryNext]_vars

FillNext ==
    \/ Query(FillPoints2D)
    \/ FillFlat
    \/ FillZbuf
    \/ FillTexture
    \/ FillUntextured

FillSpec == FillInit /\ [][FillNext]_vars

(***************************************************************************)
(* ZSpec: up to MaxCalls depth-buffered fills, one after the other, on the *)
(* same image and depth buffer, which starts filled with negative          *)
(* infinity.                                                               *)
(***************************************************************************)
\* The number of fills in a row
MaxCalls == 3

\* The corners of the image, counter-clockwise
Corners ==
    << <<0, 0>>, <<FillWidth - 1, 0>>, <<FillWidth - 1, FillHeight - 1>>,
       <<0, FillHeight - 1>> >>

\* The triangles drawn: three consecutive corners of the image, the first at
\* depth a, the other two at depth b
ZTriangles ==
    {<< <<Corners[i][1], Corners[i][2], a>>,
        <<Corners[(i % 4) + 1][1], Corners[(i % 4) + 1][2], b>>,
        <<Corners[((i + 1) % 4) + 1][1], Corners[((i + 1) % 4) + 1][2], b>> >> :
        i \in 1..4, a \in 0..MaxZ, b \in 0..MaxZ}

\* The k-th fill has a colour, or a shading intensity 2^(1-k), of its own
CallColor(k) == new_rgba(255 - (k % 3) * 100, (k % 5) * 50, 7 * k, 255)
CallIntensity(k) == <<Pow2(23), -22 - k>>

ZInit == Fresh(FillWidth, FillHeight)

ZFlat ==
    /\ Len(calls) < MaxCalls
    /\ \E t \in ZTriangles :
          DepthDrawn([op |-> "triangle_barycentric_zbuf", points |-> t,
                      color |-> CallColor(Len(calls) + 1)],
                     triangle_barycentric_zbuf(t[1], t[2], t[3], zbuf,
                                               CallColor(Len(calls) + 1), image))

ZTexture ==
    /\ Len(calls) < MaxCalls
    /\ \E t \in ZTriangles :
          DepthDrawn([op |-> "triangle_barycentric_zbuf_with_texture",
                      points |-> t, texture |-> TextureDef,
                      model |-> TexturedModel,
                      intensity |-> CallIntensity(Len(calls) + 1)],
                     triangle_barycentric_zbuf_with_texture(
                         t, TextureDef, zbuf, image, TexturedModel,
                         CallIntensity(Len(calls) + 1)))

ZNext == ZFlat \/ ZTexture

ZSpec == ZInit /\ [][ZNext]_vars

(***************************************************************************)
(* TriSpec: one call of the edge-walking triangle() on a fresh image.      *)
(***************************************************************************)
\* The vertices range over 0..TriMax on both axes
TriMax == 3
\* The image triangles are drawn into
TriWidth == 4
TriHeight == 4

TriPoints == (0..TriMax) \X (0..TriMax)

TriInit == Fresh(TriWidth, TriHeight)

DrawTriangle ==
    /\ call = NoCall
    /\ \E v1 \in TriPoints, v2 \in TriPoints, v3 \in TriPoints :
          Drawn([op |-> "triangle", points |-> <<v1, v2, v3>>, color |-> WHITE],
                triangle(v1, v2, v3, WHITE, image))

\* The columns from TriFar on lie beyond 2^24, where not every i32 is an f32
TriFar == Pow2(24)
TriFarReach == 2

TriFarPoints == (TriFar..(TriFar + TriFarReach)) \X (0..TriFarReach)

\* triangle() with vertices TriFar columns to the right: every call of set
\* falls outside the image of the model and is left to the trace
DrawFarTriangle ==
    /\ call = NoCall
    /\ \E v1 \in TriFarPoints, v2 \in TriFarPoints, v3 \in TriFarPoints :
          Drawn([op |-> "triangle", points |-> <<v1, v2, v3>>, color |-> WHITE],
                triangle(v1, v2, v3, WHITE, image))

TriNext == DrawTriangle \/ DrawFarTriangle

TriSpec == TriInit /\ [][TriNext]_vars

(***************************************************************************)
(* ClipSpec: one call of triangle_barycentric() with vertices inside and   *)
(* outside of the image.                                                   *)
(***************************************************************************)
\* The image of ClipSpec
ClipWidth == 3
ClipHeight == 3
\* The vertices reach ClipReach pixels beyond the image on every side
ClipReach == 1

ClipPoints == (-ClipReach..(ClipWidth - 1 + ClipReach)) \X (-ClipReach..(ClipHeight - 1 + ClipReach))

ClipInit == Fresh(ClipWidth, ClipHeight)

FillClipped ==
    /\ call = NoCall
    /\ \E v1 \in ClipPoints, v2 \in ClipPoints, v3 \in ClipPoints :
          Drawn([op |-> "triangle_barycentric", points |-> <<v1, v2, v3>>,
                 color |-> RED],
                triangle_barycentric(v1, v2, v3, RED, image))

ClipNext == FillClipped

ClipSpec == ClipInit /\ [][ClipNext]_vars

(***************************************************************************)
(* DepthSpec: one call of a depth-buffered fill on a fresh image and depth *)
(* buffer, with vertices inside and to the right of the image.             *)
(***************************************************************************)
\* The image of DepthSpec
DepthWidth == 3
DepthHeight == 2
\* The vertices reach DepthReach pixels beyond the right edge of the image
DepthReach == 1

DepthPoints3D == (0..(DepthWidth - 1 + DepthReach)) \X (0..(DepthHeight - 1)) \X (0..MaxZ)

\* The texture coordinates of the three vertices: three corners of the
\* texture, or one texel for all three
DepthTextureDefs ==
    {TextureDef} \cup {<<t, t, t>> : t \in (0..(TexSize - 1)) \X (0..(TexSize - 1))}

DepthInit == Fresh(DepthWidth, DepthHeight)

DepthFlat ==
    /\ call = NoCall
    /\ \E v1 \in DepthPoints3D, v2 \in DepthPoints3D, v3 \in DepthPoints3D :
          DepthDrawn([op |-> "triangle_barycentric_zbuf", points |-> <<v1, v2, v3>>,
                      color |-> RED],
                     triangle_barycentric_zbuf(v1, v2, v3, zbuf, RED, image))

DepthTextured ==
    /\ call = NoCall
    /\ \E v1 \in DepthPoints3D, v2 \in DepthPoints3D, v3 \in DepthPoints3D,
          texture_def \in DepthTextureDefs :
          DepthDrawn([op |-> "triangle_barycentric_zbuf_with_texture",
                      points |-> <<v1, v2, v3>>, texture |-> texture_def,
                      model |-> TexturedModel, intensity |-> ToF32(1)],
                     triangle_barycentric_zbuf_with_texture(
                         <<v1, v2, v3>>, texture_def, zbuf, image, TexturedModel,
                         ToF32(1)))

\* The textured fill called on a model whose texture was never loaded
DepthUntextured ==
    /\ call = NoCall
    /\ \E v1 \in DepthPoints3D, v2 \in DepthPoints3D, v3 \in DepthPoints3D :
          DepthDrawn([op |-> "triangle_barycentric_zbuf_with_texture",
                      points |-> <<v1, v2, v3>>, texture |-> TextureDef,
                      model |-> UntexturedModel, intensity |-> ToF32(1)],
                     triangle_barycentric_zbuf_with_texture(
                         <<v1, v2, v3>>, TextureDef, zbuf, image, UntexturedModel,
                         ToF32(1)))

DepthNext == DepthUntextured \/ DepthFlat \/ DepthTextured

DepthSpec == DepthInit /\ [][DepthNext]_vars

(***************************************************************************)
(* RightSpec: the edge-walking and the barycentric fill, one after the     *)
(* other on the same image, of right triangles (0,0), (n,0), (0,n).        *)
(***************************************************************************)
\* The legs of the right triangles range over 1..RightMax
RightMax == 4
\* The image is RightSide x RightSide pixels
RightSide == 5
\* At most RightCalls fills are made on the image
RightCalls == 2

RightInit == Fresh(RightSide, RightSide)

RightEdgeWalk ==
    /\ call.op # "barycentric"
    /\ Len(calls) < RightCalls
    /\ \E n \in 1..RightMax, color \in {WHITE, RED} :
          /\ n < RightSide
          /\ Drawn([op |-> "triangle", points |-> << <<0, 0>>, <<n, 0>>, <<0, n>> >>,
                    color |-> color],
                   triangle(<<0, 0>>, <<n, 0>>, <<0, n>>, color, image))

RightBarycentric ==
    /\ call.op # "barycentric"
    /\ Len(calls) < RightCalls
    /\ \E n \in 1..RightMax, color \in {WHITE, RED} :
          /\ n < RightSide
          /\ Drawn([op |-> "triangle_barycentric",
                    points |-> << <<0, 0>>, <<n, 0>>, <<0, n>> >>, color |-> color],
                   triangle_barycentric(<<0, 0>>, <<n, 0>>, <<0, n>>, color, image))

\* The greatest leg n whose square is converted to f32 exactly: 4096
FarLeg == Pow2(12)

\* The test triangle_barycentric() makes for one pixel on the hypotenuse, or
\* next to it, of a right triangle too large to be drawn here
RightProbe ==
    /\ call = NoCall
    /\ \E n \in {FarLeg, FarLeg + 1}, x \in 0..RightMax, d \in 0..1, flip \in BOOLEAN :
          LET points == << <<0, 0>>, <<n, 0>>, <<0, n>> >>
              point  == IF flip THEN <<n - x + d, x>> ELSE <<x, n - x + d>>
          IN /\ ret' = barycentric(points, point)
             /\ call' = [op |-> "barycentric", points |-> points, point |-> point]
             /\ calls' = Append(calls, call')
             /\ UNCHANGED <<image, zbuf, sets>>

RightNext == RightEdgeWalk \/ RightBarycentric \/ RightProbe

RightSpec == RightInit /\ [][RightNext]_vars

(***************************************************************************)
(* ImageSpec: TGAImage::set and TGAImage::get on images of the three       *)
(* formats and on the empty image, with coordinates in and out of range.   *)
(***************************************************************************)
\* The image of ImageSpec
ImgWidth == 2
ImgHeight == 2
\* The coordinates reach ImgReach pixels beyond the image on every side; a
\* negative i32 coordinate is cast to u32 as the rasterizers do
ImgReach == 1
\* At most ImgSets calls of set are made, then one get
ImgSets == 2

ImgXs == (-ImgReach)..(ImgWidth - 1 + ImgReach)
ImgYs == (-ImgReach)..(ImgHeight - 1 + ImgReach)
ImgColors == {new_rgba(10, 20, 30, 40), RED}

ImageInit ==
    /\ image \in {TGAImage_new(ImgWidth, ImgHeight, format) :
                     format \in {Grayscale, RGB, RGBA}}
                 \cup {TGAImage_new(0, 0, RGB)}
    /\ zbuf = << >>
    /\ call = NoCall
    /\ sets = << >>
    /\ ret = << >>
    /\ calls = << >>

\* image.set(x as u32, y as u32, &color)
SetPixel ==
    /\ call.op # "get"
    /\ Len(calls) < ImgSets
    /\ \E x \in ImgXs, y \in ImgYs, color \in ImgColors :
          /\ image' = TGAImage_set(image, AsU32(x), AsU32(y), color)
          /\ call' = [op |-> "set", x |-> x, y |-> y, color |-> color]
          /\ calls' = Append(calls, call')
          /\ ret' = FALSE
          /\ UNCHANGED <<zbuf, sets>>

\* image.get(x as u32, y as u32)
GetPixel ==
    /\ call.op # "get"
    /\ \E x \in ImgXs, y \in ImgYs :
          /\ ret' = TGAImage_get(image, AsU32(x), AsU32(y))
          /\ call' = [op |-> "get", x |-> x, y |-> y]
          /\ calls' = Append(calls, call')
          /\ UNCHANGED <<image, zbuf, sets>>

ImageNext == SetPixel \/ GetPixel

ImageSpec == ImageInit /\ [][ImageNext]_vars

(***************************************************************************)
(* Construction and clearing of an image: TGAImage::new with small sizes   *)
(* and with one size whose byte count does not fit a u32, then writes      *)
(* through buffer() and calls of clear.                                    *)
(***************************************************************************)
CanvasMax == 2
\* At most CanvasCalls operations follow the construction
CanvasCalls == 2
\* A width and height whose product is 2^32
CanvasHuge == Pow2(16)

CanvasSizes ==
    ((0..CanvasMax) \X (0..CanvasMax)) \cup {<<CanvasHuge, CanvasHuge>>}
CanvasBytes == {7, 255}

\* TGAImage::new(width, height, format): where the byte count overflows, a
\* build with overflow checks panics and one without them wraps
CanvasInit ==
    /\ \E size \in CanvasSizes, format \in {Grayscale, RGB, RGBA} :
          /\ call = [op |-> "new", width |-> size[1], height |-> size[2],
                                   bytespp |-> format]
          /\ \/ image = TGAImage_new(size[1], size[2], format) /\ ret = FALSE
             \/ /\ TGAImage_new_overflows(size[1], size[2], format)
                /\ image = None
                /\ ret = TRUE
    /\ zbuf = << >>
    /\ sets = << >>
    /\ calls = <<call>>

\* image.buffer()[index] = value
CanvasStore ==
    /\ image # None
    /\ Len(calls) <= CanvasCalls
    /\ \E index \in 0..(Len(image.data) - 1), value \in CanvasBytes :
          /\ image' = TGAImage_buffer_store(image, index, value)
          /\ call' = [op |-> "store", index |-> index, value |-> value]
          /\ calls' = Append(calls, call')
          /\ UNCHANGED <<zbuf, sets, ret>>

\* image.clear()
CanvasClear ==
    /\ image # None
    /\ Len(calls) <= CanvasCalls
    /\ image' = TGAImage_clear(image)
    /\ call' = [op |-> "clear"]
    /\ calls' = Append(calls, call')
    /\ UNCHANGED <<zbuf, sets, ret>>

CanvasNext == CanvasStore \/ CanvasClear

CanvasSpec == CanvasInit /\ [][CanvasNext]_vars

(***************************************************************************)
(* The vertex sort of the edge-walking fill, applied to every triple of    *)
(* vertices of a small square around the origin.                           *)
(***************************************************************************)
SortReach == 1

SortPoints == ((-SortReach)..SortReach) \X ((-SortReach)..SortReach)

SortInit == Fresh(1, 1)

\* triangle_vertices_sort(&mut v1, &mut v2, &mut v3); the result is the
\* three vertices after the call
SortVertices ==
    /\ call = NoCall
    /\ \E v1 \in SortPoints, v2 \in SortPoints, v3 \in SortPoints :
          /\ ret' = triangle_vertices_sort(v1, v2, v3)
          /\ call' = [op |-> "triangle_vertices_sort", points |-> <<v1, v2, v3>>]
          /\ calls' = Append(calls, call')
          /\ UNCHANGED <<image, zbuf, sets>>

SortNext == SortVertices

SortSpec == SortInit /\ [][SortNext]_vars

(***************************************************************************)
(* The iterator Line::new(start, end).points(), stepped by calls of next() *)
(* up to and beyond its end.  ret holds the iterator and the Option the    *)
(* last call returned, sets the points yielded so far.                     *)
(***************************************************************************)
WalkReach == 2
\* The calls of next() made after the first None
WalkExtra == 1

WalkPoints == ((-WalkReach)..WalkReach) \X ((-WalkReach)..WalkReach)

\* Line::new(start, end).points()
WalkInit ==
    /\ image = TGAImage_new(1, 1, RGB)
    /\ zbuf = << >>
    /\ \E start \in WalkPoints, end \in WalkPoints :
          /\ call = [op |-> "points", start |-> start, end |-> end]
          /\ ret = [self |-> Points_new(start, end), item |-> None]
    /\ sets = << >>
    /\ calls = <<call>>

\* points.next()
WalkNext ==
    /\ Len(calls) - Len(sets) < 2 + WalkExtra
    /\ \E n \in {Points_next(ret.self)} :
          /\ ret' = [self |-> n.self, item |-> n.ret]
          /\ sets' = IF n.ret.some THEN Append(sets, n.ret.value) ELSE sets
    /\ call' = [op |-> "next"]
    /\ calls' = Append(calls, call')
    /\ UNCHANGED <<image, zbuf>>

WalkSpec == WalkInit /\ [][WalkNext]_vars

(***************************************************************************)
(* line() with endpoints in and around a small image and with endpoints at *)
(* the ends of the i32 range, in a build with and in a build without       *)
(* overflow checks.  ret tells whether the call panicked.                  *)
(***************************************************************************)
EdgeWidth == 3
EdgeHeight == 2
\* The near coordinates reach EdgeReach pixels beyond the image
EdgeReach == 1
\* The far coordinates lie within EdgeFar of i32::MIN and i32::MAX
EdgeFar == 1

EdgeNear == (-EdgeReach)..(Max(EdgeWidth, EdgeHeight) - 1 + EdgeReach)
EdgeCoords ==
    EdgeNear \cup {I32Min + k : k \in 0..EdgeFar} \cup {I32Max - k : k \in 0..EdgeFar}

\* The loop of line() runs over near coordinates only
EdgeShort(x0, y0, x1, y1) ==
    IF line_steep(x0, y0, x1, y1)
    THEN y0 \in EdgeNear /\ y1 \in EdgeNear
    ELSE x0 \in EdgeNear /\ x1 \in EdgeNear

EdgeInit == Fresh(EdgeWidth, EdgeHeight)

\* line(x0, y0, x1, y1, &color, &mut image): where an operation overflows, a
\* build with overflow checks panics there and one without them goes on
\* with the wrapped value
DrawEdgeLine ==
    /\ call = NoCall
    /\ \E x0 \in EdgeCoords, y0 \in EdgeCoords, x1 \in EdgeCoords, y1 \in EdgeCoords :
          /\ EdgeShort(x0, y0, x1, y1)
          /\ \E r \in {line(x0, y0, x1, y1, WHITE, image)} :
                \/ image' = r.image /\ sets' = r.sets /\ ret' = FALSE
                \/ /\ r.panicked
                   /\ image' = r.checked.image
                   /\ sets' = r.checked.sets
                   /\ ret' = TRUE
          /\ call' = [op |-> "line", x0 |-> x0, y0 |-> y0, x1 |-> x1, y1 |-> y1,
                      color |-> WHITE]
          /\ calls' = Append(calls, call')
          /\ UNCHANGED zbuf

EdgeNext == DrawEdgeLine

EdgeSpec == EdgeInit /\ [][EdgeNext]_vars

(***************************************************************************)
(* The two depth-buffered fills side by side: the untextured fill of one   *)
(* triangle over a depth buffer that already holds depths, and the index   *)
(* of a depth cell as the two fills compute it for a pixel of an image of  *)
(* more than 2^31 pixels.                                                  *)
(***************************************************************************)
PairWidth == 3
PairHeight == 2
PairReach == 1
\* The width of the large image, and how far its pixels lie on either side
\* of index 2^31
PairFarWidth == Pow2(16) - 1
PairFarReach == 1

PairPoints3D == (0..(PairWidth - 1 + PairReach)) \X (0..(PairHeight - 1)) \X (0..MaxZ)

\* The depth buffers a fill starts from: untouched, holding 0.5 everywhere,
\* and holding 0.5 in every other cell
PairDepths ==
    {FreshZbuf(PairWidth, PairHeight),
     [i \in 1..(PairWidth * PairHeight) |-> FDiv(ToF32(1), ToF32(2))],
     [i \in 1..(PairWidth * PairHeight) |->
         IF i % 2 = 0 THEN FDiv(ToF32(1), ToF32(2)) ELSE NEG_INFINITY]}

PairInit ==
    /\ image = TGAImage_new(PairWidth, PairHeight, RGB)
    /\ zbuf \in PairDepths
    /\ call = NoCall
    /\ sets = << >>
    /\ ret = << >>
    /\ calls = << >>

\* triangle_barycentric_zbuf(v1, v2, v3, &mut zbuf, &color, &mut image)
PairFlat ==
    /\ call = NoCall
    /\ \E v1 \in PairPoints3D, v2 \in PairPoints3D, v3 \in PairPoints3D :
          DepthDrawn([op |-> "triangle_barycentric_zbuf", points |-> <<v1, v2, v3>>,
                      color |-> RED, zbuf |-> zbuf],
                     triangle_barycentric_zbuf(v1, v2, v3, zbuf, RED, image))

\* The index of the depth cell of the pixel (x, y) in the row PairFarWidth / 2
\* of an image PairFarWidth wide, as either fill computes it
PairIndex ==
    /\ call = NoCall
    /\ \E x \in (Pow2(15) - PairFarReach)..(Pow2(15) + PairFarReach),
          y \in {Pow2(15)} :
          /\ ret' = [flat |-> zbuf_index(x, y, PairFarWidth),
                     with_texture |-> zbuf_index_with_texture(x, y, PairFarWidth)]
          /\ call' = [op |-> "zbuf_index", x |-> x, y |-> y, width |-> PairFarWidth]
          /\ calls' = Append(calls, call')
          /\ UNCHANGED <<image, zbuf, sets>>

PairNext == PairIndex \/ PairFlat

PairSpec == PairInit /\ [][PairNext]_vars

(***************************************************************************)
(* Run-length encoding of an image and decoding of the stream: every small *)
(* image over two pixel values, and images of about MAX_CHUNK_LENGTH       *)
(* pixels made of a run and a stretch without repetition.                  *)
(***************************************************************************)
RleWidth == 3
RleHeight == 2
\* The long images have up to MAX_CHUNK_LENGTH + RleOver pixels
RleOver == 2

\* The image of the given size whose pixels differ in the byte numbered at:
\* that byte of the pixel i is vals[i], every other byte is 7
RleImage(width, height, bytespp, at, vals) ==
    [width |-> width, height |-> height, bytespp |-> bytespp,
     data |-> [i \in 1..(width * height * bytespp) |->
                  IF (i - 1) % bytespp = at THEN vals[((i - 1) \div bytespp) + 1]
                  ELSE 7]]

\* n pixel values: a run of k equal values followed by values that differ
\* from their neighbours, or the other way round
RunThenRaw(n, k) == [i \in 1..n |-> IF i <= k THEN 0 ELSE 1 + (i % 2)]
RawThenRun(n, k) == [i \in 1..n |-> IF i <= k THEN 1 + (i % 2) ELSE 0]

RleSplits == {0, 1, 2, 3, MAX_CHUNK_LENGTH - 1, MAX_CHUNK_LENGTH, MAX_CHUNK_LENGTH + 1}

RleImages ==
    {RleImage(w, h, b, at, vals) :
        <<w, h, b, at, vals>> \in
            UNION {{<<w, h, b, at, vals>> :
                        vals \in [1..(w * h) -> {0, 1}], at \in 0..(b - 1)} :
                   <<w, h, b>> \in (0..RleWidth) \X (1..RleHeight) \X {Grayscale, RGB}}}
    \cup
    {RleImage(n, 1, b, b - 1, vals) :
        <<n, b, vals>> \in
            UNION {{<<n, b, vals>> :
                        vals \in {RunThenRaw(n, k) : k \in RleSplits}
                                  \cup {RawThenRun(n, k) : k \in RleSplits}} :
                   <<n, b>> \in ((MAX_CHUNK_LENGTH - 1)..(MAX_CHUNK_LENGTH + RleOver))
                                 \X {Grayscale, RGBA}}}

RleInit ==
    /\ image \in RleImages
    /\ zbuf = << >>
    /\ call = NoCall
    /\ sets = << >>
    /\ ret = << >>
    /\ calls = << >>

\* image.unload_rle_data(&mut out): ret holds the stream written and the
\* pixel count of every packet
UnloadRle ==
    /\ call = NoCall
    /\ ret' = unload_rle_data(image)
    /\ call' = [op |-> "unload_rle_data"]
    /\ calls' = Append(calls, call')
    /\ UNCHANGED <<image, zbuf, sets>>

\* TGAImage::load_rle_data(&mut input, &mut data, &(height, width, bytespp))
\* on the stream written, data being vec![0u8; height * width * bytespp]
LoadRle ==
    /\ call.op = "unload_rle_data"
    /\ ret' = load_rle_data(ret.stream,
                            [i \in 1..(image.height * image.width * image.bytespp) |-> 0],
                            image.height, image.width, image.bytespp)
    /\ call' = [op |-> "load_rle_data", stream |-> ret.stream, packets |-> ret.packets]
    /\ calls' = Append(calls, call')
    /\ UNCHANGED <<image, zbuf, sets>>

RleNext == UnloadRle \/ LoadRle

RleSpec == RleInit /\ [][RleNext]_vars

(***************************************************************************)
(* PermSpec: barycentric() and triangle_barycentric() on the pixels of a   *)
(* small image and on the corners of a right triangle with legs of 4097.   *)
(***************************************************************************)
\* The pixels of the small image range over 0..PermMax on both axes
PermMax == 1

\* The corners (4097,0), (0,4097) and the pixel (1,4096) between them
PermFar == {<<FarLeg + 1, 0>>, <<0, FarLeg + 1>>, <<1, FarLeg>>}
PermNear == (0..PermMax) \X (0..PermMax)
PermPoints == PermNear \cup PermFar

PermInit == Fresh(PermMax + 1, PermMax + 1)

PermFill ==
    /\ call = NoCall
    /\ \E v1 \in PermNear, v2 \in PermNear, v3 \in PermNear :
          Drawn([op |-> "triangle_barycentric", points |-> <<v1, v2, v3>>,
                 color |-> WHITE],
                triangle_barycentric(v1, v2, v3, WHITE, image))

PermNext == Query(PermPoints) \/ PermFill

PermSpec == PermInit /\ [][PermNext]_vars

(***************************************************************************)
(* BoxSpec: one call of boundary_box_setup(), followed by the scan of the  *)
(* box as the barycentric fills do it.                                     *)
(***************************************************************************)
\* The vertices range over -BoxReach..BoxReach on both axes
BoxReach == 2
\* Width and height of the image range over 1..BoxSide
BoxSide == 2

BoxPoints == (-BoxReach..BoxReach) \X (-BoxReach..BoxReach)

BoxInit == Fresh(BoxSide, BoxSide)

\* boundary_box_setup() has run with the given result; ret is the box and
\* the pixels the fills' two nested loops visit
Boxed(c, result) ==
    \E box \in {result} :
        /\ ret' = [box |-> box, scan |-> box_scan(box)]
        /\ call' = c
        /\ calls' = Append(calls, c)
        /\ UNCHANGED <<image, zbuf, sets>>

SetupBox ==
    /\ call = NoCall
    /\ \E v1 \in BoxPoints, v2 \in BoxPoints, v3 \in BoxPoints,
          width \in 1..BoxSide, height \in 1..BoxSide :
          Boxed([op |-> "boundary_box_setup", points |-> <<v1, v2, v3>>,
                 width |-> width, height |-> height],
                boundary_box_setup(<<v1, v2, v3>>, width, height))

BoxNext == SetupBox

BoxSpec == BoxInit /\ [][BoxNext]_vars

(***************************************************************************)
(* Properties of line().                                                   *)
(***************************************************************************)
Range(s) == {s[i] : i \in DOMAIN s}

\* The pixel <<x, y>> lies in the image
InImage(img, p) == 0 <= p[1] /\ p[1] < img.width /\ 0 <= p[2] /\ p[2] < img.height

\* The bytes the image stores for the pixel p of the image
PixelBytes(img, p) ==
    [i \in 1..img.bytespp |-> img.data[(p[1] + p[2] * img.width) * img.bytespp + i]]

\* The bytes a colour leaves in a pixel of the image
ColorBytes(img, color) == [i \in 1..img.bytespp |-> color.bgra[i]]

\* The pixels of the image that hold the colour
Painted(img, color) ==
    {p \in (0..(img.width - 1)) \X (0..(img.height - 1)) :
        PixelBytes(img, p) = ColorBytes(img, color)}

LineDone == call.op = "line"
LineP0 == <<call.x0, call.y0>>
LineP1 == <<call.x1, call.y1>>
\* D and d of the call
LineD == Max(Abs(call.x1 - call.x0), Abs(call.y1 - call.y0))
Lined == Min(Abs(call.x1 - call.x0), Abs(call.y1 - call.y0))
\* the major axis is y exactly when |dy| > |dx|
LineMajorIsY == Abs(call.y1 - call.y0) > Abs(call.x1 - call.x0)
Major(p) == IF LineMajorIsY THEN p[2] ELSE p[1]
Minor(p) == IF LineMajorIsY THEN p[1] ELSE p[2]
\* the endpoint the loop starts from: the one with the smaller major coordinate
LineStart == IF Major(LineP0) <= Major(LineP1) THEN LineP0 ELSE LineP1
LineEnd == IF Major(LineP0) <= Major(LineP1) THEN LineP1 ELSE LineP0
\* major and minor offset of a pixel from the starting endpoint, the minor
\* one counted in the direction of the other endpoint
OffK(p) == Major(p) - Major(LineStart)
OffM(p) == (Minor(p) - Minor(LineStart)) * Sgn(Minor(LineEnd) - Minor(LineStart))

\* C7: line(x0,y0,x1,y1) and line(x1,y1,x0,y0), drawn with the same colour on
\* identical images, write the same set of pixels (and leave the same image).
C7_LineSymmetric ==
    LineDone =>
        LET r == line(call.x1, call.y1, call.x0, call.y0, call.color,
                      TGAImage_new(LineWidth, LineHeight, RGB))
        IN /\ {p \in Range(r.sets) : InImage(image, p)}
                = {p \in Range(sets) : InImage(image, p)}
           /\ Range(r.sets) = Range(sets)
           /\ r.image = image

\* a steep line given from its larger-y endpoint, partly outside the image
C7_Witness ==
    /\ LineDone
    /\ LineMajorIsY /\ call.y0 > call.y1 /\ call.x0 # call.x1
    /\ Cardinality(Range(sets)) >= 4
    /\ \E p \in Range(sets) : ~InImage(image, p)

\* C8: with both endpoints inside the image, line() writes the pixel (x0,y0)
\* and the pixel (x1,y1).
C8_EndpointsWritten ==
    (LineDone /\ InImage(image, LineP0) /\ InImage(image, LineP1)) =>
        /\ LineP0 \in Range(sets) /\ LineP1 \in Range(sets)
        /\ sets[1] = LineStart /\ sets[Len(sets)] = LineEnd
        /\ {LineP0, LineP1} \subseteq Painted(image, call.color)

\* a line inside the image given from its larger-major endpoint, with a
\* minor-axis change
C8_Witness ==
    /\ LineDone /\ InImage(image, LineP0) /\ InImage(image, LineP1)
    /\ Major(LineP0) > Major(LineP1) /\ Lined >= 1 /\ LineD >= 2

\* The part of C9 that holds of every line: each written pixel is within half a
\* pixel of the ideal line along the minor axis; the error grows by 2*d per
\* step and drops by 2*D exactly when the minor coordinate moves, by one, toward
\* the other endpoint.
LineDeviation ==
    \A i \in 1..Len(sets) :
        /\ OffK(sets[i]) = i - 1
        /\ OffM(sets[i]) >= 0
        /\ Abs(2 * OffK(sets[i]) * Lined - 2 * LineD * OffM(sets[i])) <= LineD
        /\ i < Len(sets) =>
              /\ OffM(sets[i + 1]) - OffM(sets[i]) \in {0, 1}
              /\ ret[i] = 2 * i * Lined - 2 * LineD * OffM(sets[i + 1])
              /\ (OffM(sets[i + 1]) = OffM(sets[i]) + 1) <=>
                    (2 * i * Lined - 2 * LineD * OffM(sets[i]) > LineD)

\* C9 as claimed: the pixels deviate by at most half a pixel, and the error is
\* within (-D, D] after every step.
C9_AsClaimed ==
    LineDone =>
        /\ LineDeviation
        /\ \A i \in 1..Len(ret) : -LineD < ret[i] /\ ret[i] <= LineD

\* C9, amended: the pixels deviate by at most half a pixel; the error is within
\* (-D, D] after every step of a line with D > 0, and is 0 after the single step
\* of a zero-length line (D = 0, where (-D, D] is empty).
C9_ErrorBounded ==
    LineDone =>
        /\ LineDeviation
        /\ Len(ret) = Len(sets)
        /\ \A i \in 1..Len(ret) :
              IF LineD > 0 THEN -LineD < ret[i] /\ ret[i] <= LineD
              ELSE ret[i] = 0

\* a line whose error reaches both D (a step is due but not yet taken) and a
\* negative value
C9_Witness ==
    /\ LineDone /\ LineD >= 3 /\ Lined >= 1
    /\ \E i \in 1..Len(ret) : ret[i] = LineD
    /\ \E i \in 1..Len(ret) : ret[i] < 0

\* C10: a segment inside the image is drawn as exactly D+1 distinct pixels, one
\* for each major-axis coordinate between the endpoints, consecutive pixels
\* differing by at most 1 in the minor axis; a zero-length line is one pixel, a
\* vertical line is every pixel of its column between the endpoints.
C10_PixelCount ==
    (LineDone /\ InImage(image, LineP0) /\ InImage(image, LineP1)) =>
        /\ Len(sets) = LineD + 1
        /\ Cardinality(Range(sets)) = LineD + 1
        /\ Painted(image, call.color) = Range(sets)
        /\ {Major(p) : p \in Range(sets)} = Major(LineStart)..Major(LineEnd)
        /\ \A i \in 1..(Len(sets) - 1) :
              /\ Major(sets[i + 1]) = Major(sets[i]) + 1
              /\ Abs(Minor(sets[i + 1]) - Minor(sets[i])) <= 1
        /\ LineP0 = LineP1 => Range(sets) = {LineP0}
        /\ call.x0 = call.x1 =>
              Range(sets) = {<<call.x0, y>> :
                                y \in Min(call.y0, call.y1)..Max(call.y0, call.y1)}

\* a slanted line inside the image with a flat stretch and a minor-axis step
C10_Witness ==
    /\ LineDone /\ InImage(image, LineP0) /\ InImage(image, LineP1)
    /\ LineD = 3 /\ Lined = 1
(***************************************************************************)
(* Properties of barycentric().                                            *)
(***************************************************************************)
\* Twice the signed area of the triangle (a, b, c)
Cross(a, b, c) == (b[1] - a[1]) * (c[2] - a[2]) - (b[2] - a[2]) * (c[1] - a[1])

\* The three vertices are collinear or coincide
Degenerate(t) == Cross(t[1], t[2], t[3]) = 0

\* p lies in the closed triangle t: on no edge is p strictly on the other side
\* than the triangle is
InClosedTriangle(t, p) ==
    LET d1 == Cross(t[1], t[2], p)
        d2 == Cross(t[2], t[3], p)
        d3 == Cross(t[3], t[1], p)
    IN \/ d1 >= 0 /\ d2 >= 0 /\ d3 >= 0
       \/ d1 <= 0 /\ d2 <= 0 /\ d3 <= 0

Queried == call.op = "barycentric"

\* The value of the f32 f in units of 2^-28, rounded down, and whether f is a
\* whole number of these units
Units(f) ==
    IF f[1] = 0 THEN 0
    ELSE IF f[2] + 28 >= 0 THEN f[1] * Pow2(f[2] + 28)
    ELSE IF f[2] + 28 < -30 THEN (IF f[1] < 0 THEN -1 ELSE 0)
    ELSE f[1] \div Pow2(-(f[2] + 28))
WholeUnits(f) ==
    \/ f[1] = 0
    \/ f[2] + 28 >= 0
    \/ f[2] + 28 >= -30 /\ f[1] % Pow2(-(f[2] + 28)) = 0
One == Pow2(28)
Half == Pow2(27)
\* The largest whole number of units that is at most 1e-5
Tolerance == One \div 100000

WeightSum == Units(ret.u) + Units(ret.v) + Units(ret.w)
Rebuilt(axis) ==
    Units(ret.w) * call.points[1][axis] + Units(ret.u) * call.points[2][axis]
        + Units(ret.v) * call.points[3][axis]
WeightsWhole == WholeUnits(ret.u) /\ WholeUnits(ret.v) /\ WholeUnits(ret.w)

\* The weights at the vertices and at the midpoints of the edges
Midpoint(a, b, p) == a # b /\ 2 * p[1] = a[1] + b[1] /\ 2 * p[2] = a[2] + b[2]
WeightsAre(u, v, w) == Units(ret.u) = u /\ Units(ret.v) = v /\ Units(ret.w) = w
SpecialPoints ==
    LET t == call.points
        p == call.point
    IN /\ p = t[1] => WeightsAre(0, 0, One)
       /\ p = t[2] => WeightsAre(One, 0, 0)
       /\ p = t[3] => WeightsAre(0, One, 0)
       /\ Midpoint(t[1], t[2], p) => WeightsAre(Half, 0, Half)
       /\ Midpoint(t[1], t[3], p) => WeightsAre(0, Half, Half)
       /\ Midpoint(t[2], t[3], p) => WeightsAre(Half, Half, 0)

Flat(points) == Degenerate(<< <<points[1][1], points[1][2]>>,
                              <<points[2][1], points[2][2]>>,
                              <<points[3][1], points[3][2]>> >>)
Filled == call.op \in {"triangle_barycentric", "triangle_barycentric_zbuf",
                       "triangle_barycentric_zbuf_with_texture"}
C5_DegenerateDrawsNothing ==
    /\ (Queried /\ Degenerate(call.points)) => ~ret.some
    /\ (Filled /\ Flat(call.points)) =>
          /\ sets = << >>
          /\ image = TGAImage_new(FillWidth, FillHeight, RGB)
          /\ zbuf = FreshZbuf(FillWidth, FillHeight)
          /\ ret # TRUE

\* Collinear distinct vertices spanning the image, given to the textured fill
\* of a model without texture: not one pixel reaches color.unwrap()
C5_Witness ==
    /\ call.op = "triangle_barycentric_zbuf_with_texture"
    /\ call.model = UntexturedModel
    /\ <<call.points[1][1], call.points[1][2]>> = <<0, 0>>
    /\ <<call.points[2][1], call.points[2][2]>> = <<1, 1>>
    /\ <<call.points[3][1], call.points[3][2]>> = <<2, 2>>
    /\ ret = FALSE

(***************************************************************************)
(* Properties of the depth-buffered fills.                                 *)
(***************************************************************************)
Pixels == (0..(FillWidth - 1)) \X (0..(FillHeight - 1))

\* The index of the depth cell of the pixel p in a depth buffer (from 1)
Cell(p) == p[1] + p[2] * FillWidth + 1

\* What a fill of the triangle t finds at the pixel p: whether t contains p
\* and, if it does, the interpolated depth and the interpolated texture
\* coordinates (every textured fill of ZSpec has the texture coordinates
\* TextureDef)
Probe(t, p) ==
    LET bc == barycentric(t, p)
    IN IF bc.some
       THEN [some |-> TRUE, z |-> interpolate_z(t, bc),
             uv |-> interpolate_uv(TextureDef, bc)]
       ELSE None

\* Probe, tabulated for the pixels ps of the triangle t, and for the
\* triangles ts
RECURSIVE ProbeRow(_, _)
ProbeRow(t, ps) ==
    IF ps = {} THEN << >>
    ELSE LET p == CHOOSE q \in ps : TRUE
         IN (p :> Probe(t, p)) @@ ProbeRow(t, ps \ {p})
RECURSIVE ProbeTable(_)
ProbeTable(ts) ==
    IF ts = {} THEN << >>
    ELSE LET t == CHOOSE u \in ts : TRUE
         IN (t :> ProbeRow(t, Pixels)) @@ ProbeTable(ts \ {t})
Hit == ProbeTable(ZTriangles)

\* The fill c covers the pixel p; its interpolated depth and its colour there
Covers(c, p) == Hit[c.points][p].some
DepthAt(c, p) == Hit[c.points][p].z
ColorAt(c, p) ==
    IF c.op = "triangle_barycentric_zbuf" THEN c.color
    ELSE TGAColor_mul(Model_diffuse(c.model, Hit[c.points][p].uv).val, c.intensity)

\* The fills so far that cover the pixel p, and the earliest of them whose
\* depth there no other of them exceeds
Covering(p) == {k \in 1..Len(calls) : Covers(calls[k], p)}
Winner(p) ==
    CHOOSE k \in Covering(p) :
        \A j \in Covering(p) :
            /\ FLe(DepthAt(calls[j], p), DepthAt(calls[k], p))
            /\ j < k => FLt(DepthAt(calls[j], p), DepthAt(calls[k], p))

\* Every depth cell holds the greatest depth of the fills that covered its
\* pixel, and the pixel the colour of the earliest fill with that depth; an
\* uncovered pixel keeps negative infinity and the colour of the new image
DepthIsMaximum ==
    \A p \in Pixels :
        IF Covering(p) = {}
        THEN /\ zbuf[Cell(p)] = NEG_INFINITY
             /\ PixelBytes(image, p) = [i \in 1..image.bytespp |-> 0]
        ELSE /\ zbuf[Cell(p)] = DepthAt(calls[Winner(p)], p)
             /\ PixelBytes(image, p) = ColorBytes(image, ColorAt(calls[Winner(p)], p))

\* Two fills A then B over the same pixel: the depth is the greater of the
\* two, and the colour is B's exactly when B's depth is strictly greater
TwoFills ==
    Len(calls) = 2 =>
        \A p \in Pixels :
            (Covers(calls[1], p) /\ Covers(calls[2], p)) =>
                LET zA == DepthAt(calls[1], p)
                    zB == DepthAt(calls[2], p)
                IN /\ zbuf[Cell(p)] = IF FLt(zA, zB) THEN zB ELSE zA
                   /\ FLt(zA, zB) =>
                          PixelBytes(image, p) = ColorBytes(image, ColorAt(calls[2], p))
                   /\ ~FLt(zA, zB) =>
                          PixelBytes(image, p) = ColorBytes(image, ColorAt(calls[1], p))

\* No depth cell decreases in a fill
NoCellDecreases == \A i \in DOMAIN zbuf : FLe(zbuf[i], zbuf'[i])

\* C1: from a depth buffer filled with negative infinity, after any sequence
\* of triangle_barycentric_zbuf / triangle_barycentric_zbuf_with_texture calls
\* every depth cell holds the maximum interpolated z of the calls that covered
\* its pixel (negative infinity if none) and the pixel has the colour of the
\* earliest call attaining it; no cell decreases from one call to the next;
\* after A then B over one pixel the depth is max(zA, zB) and the colour is
\* B's iff zB > zA.
C1_DepthBufferKeepsNearest ==
    /\ [](DepthIsMaximum /\ TwoFills)
    /\ [][NoCellDecreases]_vars

\* Three fills over one pixel, the second as deep there as the first and the
\* third deeper: the pixel went to the first, stayed, then went to the third
C1_Witness ==
    /\ Len(calls) = 3
    /\ \E p \in Pixels :
          /\ \A k \in 1..3 : Covers(calls[k], p)
          /\ DepthAt(calls[1], p) = DepthAt(calls[2], p)
          /\ FLt(DepthAt(calls[2], p), DepthAt(calls[3], p))
          /\ ColorAt(calls[1], p) # ColorAt(calls[2], p)
          /\ PixelBytes(image, p) = ColorBytes(image, ColorAt(calls[3], p))

\* What one fill, call', does to the pixel p and its depth cell
Written(p) == p \in Range(sets')
CellKept(p) == zbuf'[Cell(p)] = zbuf[Cell(p)]
PixelKept(p) == PixelBytes(image', p) = PixelBytes(image, p)
DepthTested(p) ==
    IF Covers(call', p)
    THEN IF FLt(zbuf[Cell(p)], DepthAt(call', p))
         THEN /\ zbuf'[Cell(p)] = DepthAt(call', p)
              /\ Written(p)
              /\ PixelBytes(image', p) = ColorBytes(image', ColorAt(call', p))
         ELSE CellKept(p) /\ PixelKept(p) /\ ~Written(p)
    ELSE CellKept(p) /\ PixelKept(p) /\ ~Written(p)

C6_DegenerateTriangleEmpty ==
    (call.op = "triangle" /\ Degenerate(call.points)) => sets = << >>

(***************************************************************************)
(* Properties of boundary_box_setup().                                     *)
(***************************************************************************)
BoxDone == call.op = "boundary_box_setup"

\* The least and the greatest of the three vertex coordinates on an axis
Least(points, axis) == Min(points[1][axis], Min(points[2][axis], points[3][axis]))
Greatest(points, axis) == Max(points[1][axis], Max(points[2][axis], points[3][axis]))

\* The last pixel coordinate of the image on an axis: width - 1 or height - 1
LastOn(axis) == IF axis = 1 THEN call.width - 1 ELSE call.height - 1

\* C11: boundary_box_setup returns, independently per axis,
\* min = max(0, least vertex coordinate) and
\* max = min(width - 1 or height - 1, greatest vertex coordinate).
C11_BoxIsClampedExtent ==
    BoxDone =>
        \A axis \in 1..2 :
            /\ ret.box[1][axis] = Max(0, Least(call.points, axis))
            /\ ret.box[2][axis] = Min(LastOn(axis), Greatest(call.points, axis))

\* A triangle that sticks out of the image on both sides of both axes: all
\* four clamps act
C11_Witness ==
    /\ BoxDone
    /\ \A axis \in 1..2 :
          /\ Least(call.points, axis) < 0
          /\ Greatest(call.points, axis) > LastOn(axis)
    /\ ret.box = << <<0, 0>>, <<call.width - 1, call.height - 1>> >>

\* The box is empty: min > max on some axis
BoxEmpty == \E axis \in 1..2 : ret.box[1][axis] > ret.box[2][axis]

\* The triangle and the viewport [0, width-1] x [0, height-1], both closed
\* convex sets, have no point in common: on the x axis, the y axis or the
\* normal of an edge of the triangle their projections are apart
Apart(points, n) ==
    LET t == {n[1] * points[i][1] + n[2] * points[i][2] : i \in 1..3}
        r == {n[1] * x + n[2] * y : x \in {0, call.width - 1}, y \in {0, call.height - 1}}
    IN \/ \A a \in t : \A b \in r : a < b
       \/ \A a \in t : \A b \in r : b < a
EdgeNormal(a, b) == <<a[2] - b[2], b[1] - a[1]>>
MissesViewport(points) ==
    \E n \in {<<1, 0>>, <<0, 1>>, EdgeNormal(points[1], points[2]),
              EdgeNormal(points[2], points[3]), EdgeNormal(points[3], points[1])} :
        Apart(points, n)

\* The bounding box of the triangle misses the viewport: the three vertices
\* lie beyond the same side of it
BoxMissesViewport(points) ==
    \E axis \in 1..2 :
        Greatest(points, axis) < 0 \/ Least(points, axis) > LastOn(axis)

Clipped == call.op = "triangle_barycentric"

\* The pixels triangle_barycentric() wrote
WrittenPixels == Range(sets)

InBox(box, p) ==
    \A axis \in 1..2 : box[1][axis] <= p[axis] /\ p[axis] <= box[2][axis]

DepthFilled ==
    /\ call.op \in {"triangle_barycentric_zbuf", "triangle_barycentric_zbuf_with_texture"}
    /\ ret = FALSE

DepthPixels == (0..(DepthWidth - 1)) \X (0..(DepthHeight - 1))
DepthCell(p) == p[1] + p[2] * DepthWidth + 1

\* The depth stored for a pixel; on the fresh depth buffer every accepted
\* pixel passes the depth test, so this is the depth computed for it
StoredZ(p) == zbuf[DepthCell(p)]

LeastZ == Min(call.points[1][3], Min(call.points[2][3], call.points[3][3]))
GreatestZ == Max(call.points[1][3], Max(call.points[2][3], call.points[3][3]))

\* w*z0 + u*z1 + v*z2 for the weights barycentric() returns, in units
WeightedZ(p) ==
    LET bc == barycentric(call.points, p)
    IN Units(bc.w) * call.points[1][3] + Units(bc.u) * call.points[2][3]
           + Units(bc.v) * call.points[3][3]

\* The accepted pixels are the written ones, and a vertex inside the image
\* stores exactly its own depth
DepthAtVertices ==
    /\ \A p \in DepthPixels :
          p \in WrittenPixels <=> barycentric(call.points, p).some
    /\ ~Flat(call.points) =>
          \A i \in 1..3 :
              LET p == <<call.points[i][1], call.points[i][2]>>
              IN InImage(image, p) =>
                     p \in WrittenPixels /\ StoredZ(p) = ToF32(call.points[i][3])

\* C14 as stated: z = w*z0 + u*z1 + v*z2; at a pixel coinciding with vertex
\* i the depth tested and stored is exactly z_i, and for every accepted
\* pixel min(z0,z1,z2) <= z <= max(z0,z1,z2).
C14_AsClaimed ==
    DepthFilled =>
        /\ DepthAtVertices
        /\ \A p \in WrittenPixels :
              FLe(ToF32(LeastZ), StoredZ(p)) /\ FLe(StoredZ(p), ToF32(GreatestZ))

\* C14: the depth of an accepted pixel is w*z0 + u*z1 + v*z2 evaluated in
\* f32; at a pixel coinciding with vertex i it is exactly z_i, and for every
\* accepted pixel it equals the weighted sum and lies between min(z0,z1,z2)
\* and max(z0,z1,z2) within floating tolerance (1e-5), not exactly.
C14_DepthInterpolated ==
    DepthFilled =>
        /\ DepthAtVertices
        /\ \A p \in WrittenPixels :
              /\ Abs(Units(StoredZ(p)) - WeightedZ(p)) <= Tolerance
              /\ LeastZ * One - Tolerance <= Units(StoredZ(p))
              /\ Units(StoredZ(p)) <= GreatestZ * One + Tolerance

\* A triangle with a vertex inside the image and unequal depths, one of
\* whose accepted pixels gets a depth outside of the vertices' depths
C14_Witness ==
    /\ DepthFilled
    /\ LeastZ < GreatestZ
    /\ \E i \in 1..3 : <<call.points[i][1], call.points[i][2]>> \in WrittenPixels
    /\ \E p \in WrittenPixels :
          FLt(StoredZ(p), ToF32(LeastZ)) \/ FLt(ToF32(GreatestZ), StoredZ(p))

\* The textured fill has sampled the texture of the model
Sampled ==
    /\ call.op = "triangle_barycentric_zbuf_with_texture"
    /\ call.model = TexturedModel
    /\ ret = FALSE

Texels == (0..(TexSize - 1)) \X (0..(TexSize - 1))

\* The bytes a pixel holds after the texel c was sampled for it at the
\* intensity of the call; the texels of Texture all differ
TexelBytes(c) ==
    ColorBytes(image, TGAColor_mul(TGAImage_get(Texture, AsU32(c[1]), AsU32(c[2])),
                                   call.intensity))

\* w*t0 + u*t1 + v*t2 on one axis for the weights barycentric() returns, in
\* units
WeightedUV(p, axis) ==
    LET bc == barycentric(call.points, p)
    IN Units(bc.w) * call.texture[1][axis] + Units(bc.u) * call.texture[2][axis]
           + Units(bc.v) * call.texture[3][axis]

\* c is a nearest integer point to the interpolated texture coordinate
RoundedUV(p, c) ==
    \A axis \in 1..2 : 2 * Abs(c[axis] * One - WeightedUV(p, axis)) <= One

\* C15 as stated: the texel sampled for an accepted pixel is the integer
\* rounding of the interpolated coordinate w*t0 + u*t1 + v*t2; when all
\* three vertices carry the same texture coordinate t, every accepted pixel
\* samples texel t.
C15_TexelIsRoundedInterpolation ==
    Sampled =>
        \A p \in WrittenPixels :
            \E c \in Texels :
                /\ PixelBytes(image, p) = TexelBytes(c)
                /\ RoundedUV(p, c)
                /\ (call.texture[1] = call.texture[2] /\ call.texture[2] = call.texture[3])
                       => c = call.texture[1]

\* The textured fill was called on a model without texture and panicked
Aborted ==
    /\ call.op = "triangle_barycentric_zbuf_with_texture"
    /\ call.model = UntexturedModel
    /\ ret = TRUE

\* C16: if the textured fill aborts on a model with no diffuse texture
\* loaded, every depth cell that differs from its value before the call
\* belongs to a pixel that was written to the framebuffer during that call.
C16_AbortKeepsBuffersConsistent ==
    Aborted =>
        \A p \in DepthPixels :
            StoredZ(p) # FreshZbuf(DepthWidth, DepthHeight)[DepthCell(p)]
                => p \in WrittenPixels

(***************************************************************************)
(* Properties of the two fills on right triangles.                         *)
(***************************************************************************)
\* The pixels with x >= 0, y >= 0, x + y <= n
Staircase(n) ==
    {p \in (0..(RightSide - 1)) \X (0..(RightSide - 1)) : p[1] + p[2] <= n}

\* The leg of the right triangle of a call
Leg(c) == c.points[2][1]

\* A fill writes the pixels with x >= 0, y >= 0, x + y <= n (15 pixels for
\* n = 4), and a fill by one of the two algorithms is covered completely by
\* a fill of the same triangle by the other
FillsAgree ==
    /\ call.op \in {"triangle", "triangle_barycentric"} =>
          /\ WrittenPixels = Staircase(Leg(call))
          /\ Leg(call) = 4 => Cardinality(WrittenPixels) = 15
    /\ (/\ Len(calls) = 2
        /\ calls[1].op # calls[2].op
        /\ Leg(calls[1]) = Leg(calls[2])
        /\ calls[1].color # calls[2].color) =>
          /\ Painted(image, calls[1].color) = {}
          /\ Painted(image, calls[2].color) = Staircase(Leg(call))

\* triangle_barycentric() writes the probed pixel exactly if it is one of
\* the pixels with x + y <= n, which triangle() writes
ProbeAgrees ==
    ret.some <=> call.point[1] + call.point[2] <= Leg(call)

InRange(c) ==
    /\ 0 <= c.x /\ c.x < image.width
    /\ 0 <= c.y /\ c.y < image.height

\* The step is a call of set that leaves the image as it is
SetIgnored == image' = image

\* The step is a call of set that overwrites the bytes of the pixel with the
\* first channels of the colour and no other byte
SetWritten ==
    LET bpp    == image.bytespp
        offset == (call'.x + call'.y * image.width) * bpp
    IN /\ image'.width = image.width /\ image'.height = image.height
       /\ image'.bytespp = bpp /\ Len(image'.data) = Len(image.data)
       /\ \A i \in 1..Len(image.data) :
             image'.data[i] =
                 IF offset < i /\ i <= offset + bpp
                 THEN call'.color.bgra[i - offset]
                 ELSE image.data[i]

\* C18: TGAImage::set(x,y,c) with x >= width or y >= height leaves every
\* byte of the image unchanged and does not fail; with (x,y) in range it
\* overwrites exactly the bytes-per-pixel bytes at offset (x + y*width)*bpp
\* with the first bpp channels of c (blue, green, red, alpha) and changes no
\* other byte.
C18_SetWritesOnePixel ==
    [][call'.op = "set" =>
          /\ ret' = FALSE
          /\ IF InRange(call') THEN SetWritten ELSE SetIgnored]_vars

\* An RGB image whose pixel (1,1) was set to the colour (r,g,b,a) =
\* (10,20,30,40) after the pixel (0,0) was set to red, and the same after a
\* set out of range
C18_Witness ==
    /\ Len(calls) = 2
    /\ call.op = "set"
    /\ image.bytespp = RGB /\ image.width = ImgWidth
    /\ \/ /\ <<call.x, call.y>> = <<1, 1>>
          /\ PixelBytes(image, <<1, 1>>) = <<30, 20, 10>>
          /\ PixelBytes(image, <<0, 0>>) = <<0, 0, 255>>
       \/ /\ call.x = ImgWidth
          /\ calls[1].op = "set" /\ <<calls[1].x, calls[1].y>> = <<1, 1>>
          /\ PixelBytes(image, <<1, 1>>) = <<30, 20, 10>>

\* The calls of set before the last call that wrote the pixel of the call c
SetsAt(c) ==
    {i \in 1..(Len(calls) - 1) :
        calls[i].op = "set" /\ calls[i].x = c.x /\ calls[i].y = c.y}

\* Channel i of the pixel of the call c: that of the last colour set there,
\* or 0 on a new image
ChannelAt(c, i) ==
    IF SetsAt(c) = {} THEN 0
    ELSE calls[CHOOSE k \in SetsAt(c) : \A j \in SetsAt(c) : j <= k].color.bgra[i]

\* C19: TGAImage::get(x,y) with x >= width or y >= height returns the
\* default colour (all channels 0); for (x,y) in range, get(x,y) after
\* set(x,y,c) returns a colour whose first bpp channels equal those of c,
\* whose remaining channels are 0 and whose bytes-per-pixel tag equals the
\* image format, and a set does not change what get returns for any other
\* pixel.
C19_GetReturnsLastSet ==
    call.op = "get" =>
        IF InRange(call)
        THEN /\ ret.bytespp = image.bytespp
             /\ \A i \in 1..4 :
                   ret.bgra[i] = IF i <= image.bytespp THEN ChannelAt(call, i) ELSE 0
        ELSE ret = TGAColor_default /\ \A i \in 1..4 : ret.bgra[i] = 0

\* get of a pixel of a grayscale image that was set twice, the second time
\* to (r,g,b,a) = (10,20,30,40), the other set being elsewhere or out of range
C19_Witness ==
    /\ Len(calls) = 3
    /\ call.op = "get" /\ InRange(call)
    /\ image.bytespp = Grayscale
    /\ calls[2].x = call.x /\ calls[2].y = call.y
    /\ calls[1].x # call.x
    /\ ret = [bgra |-> <<30, 0, 0, 0>>, bytespp |-> Grayscale]

(***************************************************************************)
(* Properties of barycentric() under a change of the vertex order.         *)
(***************************************************************************)
\* The six orders of the vertices of a triangle
Orders(t) ==
    {<<t[1], t[2], t[3]>>, <<t[1], t[3], t[2]>>, <<t[2], t[1], t[3]>>,
     <<t[2], t[3], t[1]>>, <<t[3], t[1], t[2]>>, <<t[3], t[2], t[1]>>}

\* C20: the set of points accepted by barycentric() does not depend on the
\* order in which the triangle's three vertices are given: for each of the 6
\* permutations of (V0,V1,V2) and every point P the Some/None outcome is the
\* same, so triangle_barycentric writes the same pixel set for every vertex
\* order.
C20_VertexOrderIrrelevant ==
    /\ Queried =>
          \A q \in Orders(call.points) :
              barycentric(q, call.point).some = ret.some
    /\ call.op = "triangle_barycentric" =>
          \A q \in Orders(call.points) :
              Range(triangle_barycentric(q[1], q[2], q[3], call.color,
                        TGAImage_new(PermMax + 1, PermMax + 1, RGB)).sets)
                  = WrittenPixels

\* The buffer holds exactly width * height * bytespp bytes
HoldsBytes(img, width, height, bytespp) ==
    IF width = 0 \/ height = 0
    THEN Len(img.data) = 0
    ELSE /\ Len(img.data) % width = 0
         /\ (Len(img.data) \div width) % height = 0
         /\ (Len(img.data) \div width) \div height = bytespp

AllZero(img) == \A i \in 1..Len(img.data) : img.data[i] = 0

\* The image TGAImage::new returned for the call c is as large as asked
\* for, all zero, and reports the width, height and format asked for
NewAsAsked(c) ==
    /\ image # None
    /\ HoldsBytes(image, c.width, c.height, c.bytespp)
    /\ AllZero(image)
    /\ image.width = c.width
    /\ image.height = c.height
    /\ image.bytespp = c.bytespp

\* clear has zeroed the buffer and kept its length and the three getters
Cleared ==
    /\ AllZero(image')
    /\ Len(image'.data) = Len(image.data)
    /\ image'.width = image.width
    /\ image'.height = image.height
    /\ image'.bytespp = image.bytespp

\* The statement as it stands, for every width and height: it fails where
\* width * height * bytespp does not fit a u32
C21_AsClaimed == call.op = "new" => NewAsAsked(call)

\* C21: where width * height * bytes per pixel fits a u32, TGAImage::new
\* returns an image of exactly that many bytes, all zero, that reports the
\* width, height and format asked for; and clear() zeroes every byte of the
\* buffer and leaves the width, height, format and buffer length unchanged,
\* whatever was stored before
C21_NewIsZeroedAndClearZeroes ==
    [][/\ (/\ call.op = "new"
           /\ ~TGAImage_new_overflows(call.width, call.height, call.bytespp))
          => NewAsAsked(call)
       /\ call'.op = "clear" => Cleared]_vars

\* An image of several bytes was built, written to and then cleared
C21_Witness ==
    /\ call.op = "clear"
    /\ Len(calls) = 3
    /\ calls[1].width = CanvasMax
    /\ calls[1].height = CanvasMax
    /\ calls[1].bytespp = RGBA
    /\ calls[2].op = "store"
    /\ Len(image.data) = CanvasMax * CanvasMax * RGBA
    /\ AllZero(image)

Sorted == call.op = "triangle_vertices_sort"

\* The rearrangements of three positions
Rearrangements ==
    {pi \in [1..3 -> 1..3] : \A i \in 1..3 : \E k \in 1..3 : pi[k] = i}

\* out is the sequence in, rearranged by pi: out[k] is in[pi[k]]
RearrangedBy(pi, in, out) == \A k \in 1..3 : out[k] = in[pi[k]]

\* pi keeps the order of the positions of in that hold equal y
KeepsTies(pi, in) ==
    \A j, k \in 1..3 : j < k /\ in[pi[j]][2] = in[pi[k]][2] => pi[j] < pi[k]

\* C22: for all inputs, triangle_vertices_sort leaves (v1,v2,v3) a
\* permutation of the three input vertices with v1.y <= v2.y <= v3.y
C22_SortedPermutation ==
    Sorted =>
        /\ \E pi \in Rearrangements : RearrangedBy(pi, call.points, ret)
        /\ ret[1][2] <= ret[2][2]
        /\ ret[2][2] <= ret[3][2]

\* Three vertices given in descending order of y were sorted: all three
\* comparisons of the sort swap
C22_Witness ==
    /\ Sorted
    /\ call.points[1][2] > call.points[2][2]
    /\ call.points[2][2] > call.points[3][2]
    /\ ret = <<call.points[3], call.points[2], call.points[1]>>
    /\ ret[1][2] < ret[3][2]

\* C23: triangle_vertices_sort is stable: two input vertices of equal y
\* appear in the output in the same relative order as in the input
C23_SortIsStable ==
    Sorted =>
        \E pi \in Rearrangements :
            RearrangedBy(pi, call.points, ret) /\ KeepsTies(pi, call.points)

TriangleDrawn == call.op = "triangle"

\* The edges triangle() hands to the tracers of fill_flat_triangle for the
\* vertices t: two for a triangle with a flat side, four for one that is
\* split at the row of its middle vertex
TracedEdges(t) ==
    LET s  == triangle_vertices_sort(t[1], t[2], t[3])
        v4 == <<triangle_split_x(s[1], s[2], s[3]), s[2][2]>>
    IN IF s[2][2] = s[3][2] THEN {<<s[1], s[2]>>, <<s[1], s[3]>>}
       ELSE IF s[1][2] = s[2][2] THEN {<<s[3], s[1]>>, <<s[3], s[2]>>}
       ELSE {<<s[1], s[2]>>, <<s[1], v4>>, <<s[3], s[2]>>, <<s[3], v4>>}

\* The x-positions the edge tracers of the triangle t take in the row y
TracedAt(t, y) ==
    {p[1] : p \in {q \in UNION {Range(Line_points(e[1], e[2])) : e \in TracedEdges(t)} :
                      q[2] = y}}

Leftmost(S) == CHOOSE x \in S : \A z \in S : x <= z
Rightmost(S) == CHOOSE x \in S : \A z \in S : z <= x

\* The x-positions of the pixels of W in the row y
RowOf(W, y) == {p[1] : p \in {q \in W : q[2] = y}}

\* Every row from the least to the greatest vertex y holds one span of
\* the pixels W, from the leftmost to the rightmost x-position of the edge
\* tracers in that row, and no other row holds a pixel of W
SpansBetweenEdges(t, W) ==
    \A y \in {p[2] : p \in W} \cup (Least(t, 2)..Greatest(t, 2)) :
        /\ Least(t, 2) <= y
        /\ y <= Greatest(t, 2)
        /\ TracedAt(t, y) # {}
        /\ RowOf(W, y) = Leftmost(TracedAt(t, y))..Rightmost(TracedAt(t, y))

\* W lies in the bounding box of the vertices t
InBoundingBox(t, W) ==
    \A p \in W : \A axis \in 1..2 :
        Least(t, axis) <= p[axis] /\ p[axis] <= Greatest(t, axis)

\* The pixels triangle() writes on an image that contains its vertices: the
\* coordinates it passed to set. They all lie between vertices, hence in
\* that image; where the image of the model contains the vertices they are
\* the pixels that changed
VerticesInImage == \A i \in 1..3 : InImage(image, call.points[i])
TriangleWrites == Range(sets)

\* The statement as it stands, for every triangle: it fails beyond 2^24,
\* where the split vertex is computed from a rounded x
C24_AsClaimed ==
    TriangleDrawn =>
        /\ VerticesInImage => TriangleWrites = Painted(image, call.color)
        /\ SpansBetweenEdges(call.points, TriangleWrites)
        /\ Range(call.points) \subseteq TriangleWrites
        /\ InBoundingBox(call.points, TriangleWrites)

\* Every vertex coordinate of t is an f32
Below2Pow24(t) == \A i \in 1..3 : \A axis \in 1..2 : Abs(t[i][axis]) <= Pow2(24)

\* C24: for a triangle whose vertices lie inside the image, triangle()
\* writes in every row between the least and the greatest vertex y one
\* contiguous span of pixels, from the leftmost to the rightmost x-position
\* of the edge tracers in that row; it writes all three vertices and nothing
\* in a row outside that range; and where no vertex coordinate exceeds 2^24
\* it writes nothing outside the bounding box of the three vertices
C24_RowsAreSpansBetweenEdges ==
    TriangleDrawn =>
        /\ VerticesInImage => TriangleWrites = Painted(image, call.color)
        /\ SpansBetweenEdges(call.points, TriangleWrites)
        /\ Range(call.points) \subseteq TriangleWrites
        /\ Below2Pow24(call.points) => InBoundingBox(call.points, TriangleWrites)

\* A triangle with three different vertex rows, split at its middle vertex,
\* was filled, and one of its rows holds a span of three pixels or more
C24_Witness ==
    /\ TriangleDrawn
    /\ VerticesInImage
    /\ ~Degenerate(call.points)
    /\ Cardinality({call.points[i][2] : i \in 1..3}) = 3
    /\ \E y \in 0..(image.height - 1) :
          Cardinality(RowOf(Painted(image, call.color), y)) >= 3

\* The iterator has returned None: sets holds every point of the line
Walked == call.op = "next" /\ ~ret.item.some
WalkStart == calls[1].start
WalkEnd == calls[1].end

\* C25: for all endpoints a and b, Line::new(a,b).points() and
\* Line::new(b,a).points() yield the same set of points
C25_TracerSymmetric ==
    Walked => Range(sets) = Range(Line_points(WalkEnd, WalkStart))

\* The greater of |dx| and |dy| of the line walked
WalkLength ==
    Max(Abs(WalkEnd[1] - WalkStart[1]), Abs(WalkEnd[2] - WalkStart[2]))

\* The line was walked from its endpoint of smaller major coordinate
WalkedUpwards ==
    IF Abs(WalkEnd[1] - WalkStart[1]) < Abs(WalkEnd[2] - WalkStart[2])
    THEN WalkStart[2] <= WalkEnd[2]
    ELSE WalkStart[1] <= WalkEnd[1]

\* The coordinates line() passes to set for the endpoints walked, in order
LineWrites ==
    line(WalkStart[1], WalkStart[2], WalkEnd[1], WalkEnd[2], WHITE, image).sets

\* C28: Line::new(a,b).points() yields exactly max(|dx|,|dy|)+1 points, the
\* first a and the last b, and then None on every further call; when a is
\* the endpoint with the smaller major-axis coordinate the points yielded
\* are the pixels line() writes for the same endpoints, in the same order
C28_PointsAreTheLine ==
    [][Walked =>
          /\ Len(sets) = WalkLength + 1
          /\ sets[1] = WalkStart
          /\ sets[Len(sets)] = WalkEnd
          /\ WalkedUpwards => sets = LineWrites
          /\ ~ret'.item.some
          /\ sets' = sets]_vars

\* A steep line of three points with a step sideways was walked from its
\* lower end, and next() was called twice more after the last point
C28_Witness ==
    /\ Walked
    /\ Len(calls) = Len(sets) + 3
    /\ WalkStart[2] + 2 = WalkEnd[2]
    /\ Abs(WalkEnd[1] - WalkStart[1]) = 1
    /\ sets = LineWrites

\* The pixels of the image among the points ps
InBounds(ps) == {p \in ps : InImage(image, p)}

\* line() changed exactly the pixels of the image among the coordinates it
\* passed to set: a coordinate that is negative, and wraps in the cast to
\* u32, or is too large changes nothing
ClipsToImage ==
    /\ Painted(image, call.color) = InBounds(Range(sets))
    /\ \A p \in (0..(image.width - 1)) \X (0..(image.height - 1)) :
          p \notin Range(sets) => PixelBytes(image, p) = <<0, 0, 0>>

\* The statement as it stands, for all endpoints: it fails at the ends of
\* the i32 range, where the differences of the coordinates overflow
C26_AsClaimed == LineDone => ~ret /\ ClipsToImage

\* No coordinate of the call exceeds 2^28 in magnitude
LineNear ==
    \A c \in {call.x0, call.y0, call.x1, call.y1} : -Pow2(28) <= c /\ c <= Pow2(28)

\* C26: line() called with endpoints partly or wholly outside the image,
\* negative coordinates included, modifies exactly the pixels of the image
\* that belong to the segment's pixel sequence and leaves every other pixel
\* unchanged: no wrapped coordinate lands on a pixel; and with coordinates
\* of magnitude at most 2^28 it never fails
C26_OutOfBoundsIgnored ==
    LineDone =>
        /\ ClipsToImage
        /\ LineNear =>
              /\ ~ret
              /\ sets = Line_points(LineStart, LineEnd)

\* A line from above and left of the image to below and right of it was
\* drawn: it changed pixels, and both of its ends fell outside
C26_Witness ==
    /\ LineDone
    /\ ~ret
    /\ call.x0 < 0 /\ call.y0 < 0
    /\ call.x1 >= image.width /\ call.y1 >= image.height
    /\ Cardinality(Painted(image, call.color)) >= 2
    /\ Cardinality(Range(sets) \ Painted(image, call.color)) >= 2

\* C27: the pixel set written by triangle() does not depend on the order of
\* its three vertex arguments: all 6 permutations of (v1,v2,v3) write the
\* same set of pixels, also when two or three vertices share the same y
C27_TriangleOrderIrrelevant ==
    TriangleDrawn =>
        \A q \in Orders(call.points) :
            \E r \in {triangle(q[1], q[2], q[3], call.color,
                                TGAImage_new(TriWidth, TriHeight, RGB))} :
                /\ Range(r.sets) = TriangleWrites
                /\ r.image = image

\* A triangle was filled whose first and last vertex share the bottom row,
\* the apex given between them; it covers six pixels or more
C27_Witness ==
    /\ TriangleDrawn
    /\ VerticesInImage
    /\ ~Degenerate(call.points)
    /\ call.points[1][2] = call.points[3][2]
    /\ call.points[2][2] < call.points[1][2]
    /\ call.points[1][1] > call.points[3][1]
    /\ Cardinality(Painted(image, call.color)) >= 6

\* The textured fill of the same triangle, from the same image and depth
\* buffer, with the texture loaded: it writes the pixels the untextured fill
\* wrote and leaves the same depth buffer, and neither fill touched another
\* pixel
PairAgrees ==
    \A texture_def \in DepthTextureDefs :
        \E r \in {triangle_barycentric_zbuf_with_texture(
                      call.points, texture_def, call.zbuf,
                      TGAImage_new(PairWidth, PairHeight, RGB), TexturedModel,
                      ToF32(1))} :
            /\ ~r.panicked
            /\ Range(r.sets) = Range(sets)
            /\ r.zbuf = zbuf
            /\ \A p \in (0..(PairWidth - 1)) \X (0..(PairHeight - 1)) :
                  p \notin Range(sets) =>
                      /\ PixelBytes(r.image, p) = <<0, 0, 0>>
                      /\ PixelBytes(image, p) = <<0, 0, 0>>

PairFilled == call.op = "triangle_barycentric_zbuf"
PairIndexed == call.op = "zbuf_index"

\* Both fills find the depth cell of the pixel
IndexAgrees ==
    /\ ~ret.flat.panics
    /\ ~ret.with_texture.panics
    /\ ret.with_texture.index = ret.flat.index

\* The statement as it stands, for every image size: it fails on an image
\* of more than 2^31 pixels
C29_AsClaimed ==
    /\ PairFilled => PairAgrees
    /\ PairIndexed => IndexAgrees

\* C29: for the same triangle, image size and initial depth buffer, on an
\* image of at most 2^31 pixels, triangle_barycentric_zbuf and
\* triangle_barycentric_zbuf_with_texture (with a texture loaded) write the
\* same set of pixels and leave identical depth buffers; they differ only in
\* the colour written
C29_FillsAgreeBelow2Pow31 ==
    /\ PairFilled => PairAgrees
    /\ (PairIndexed /\ ret.flat.index[1] < Pow2(15)) => IndexAgrees

\* A triangle was filled over a depth buffer holding 0.5 in every other
\* cell: the fill passed the depth test at some pixels it covers and failed
\* it at others
C29_Witness ==
    /\ PairFilled
    /\ ~Flat(call.points)
    /\ call.zbuf \notin {FreshZbuf(PairWidth, PairHeight)}
    /\ Cardinality(Range(sets)) >= 2
    /\ \E p \in (0..(PairWidth - 1)) \X (0..(PairHeight - 1)) :
          /\ p \notin Range(sets)
          /\ barycentric(call.points, p).some

RECURSIVE SumOf(_)
SumOf(s) == IF s = << >> THEN 0 ELSE s[1] + SumOf(Tail(s))

\* C30: decoding with load_rle_data the stream unload_rle_data wrote, for
\* the same width, height and bytes per pixel, reproduces the pixel data
\* exactly; every packet the encoder emits covers between 1 and 128 pixels
\* and the pixel counts of the packets sum to width * height
C30_RleRoundTrip ==
    /\ call.op = "unload_rle_data" =>
          /\ \A i \in 1..Len(ret.packets) :
                1 <= ret.packets[i] /\ ret.packets[i] <= 128
          /\ SumOf(ret.packets) = image.width * image.height
    /\ call.op = "load_rle_data" =>
          /\ ~ret.failed
          /\ ret.data = image.data

\* An image of 130 four-byte pixels, a run of 129 equal ones and one that
\* differs, was written as a run packet of 128 pixels and a raw packet of
\* two, and read back
C30_Witness ==
    /\ call.op = "load_rle_data"
    /\ image.width = MAX_CHUNK_LENGTH + 2
    /\ image.bytespp = RGBA
    /\ call.packets = <<MAX_CHUNK_LENGTH, 2>>
    /\ call.stream = <<255, 7, 7, 7, 0, 1, 7, 7, 7, 0, 7, 7, 7, 1>>
    /\ ret.data = image.data

====
